---- MODULE Spec2Model ----
(***************************************************************************)
(* Client-side request/session orchestration of Support-RAG:               *)
(*   - the ConversationStore (chatReducer, ChatProvider),                  *)
(*   - the RequestGateway (apiClient and its two interceptors),            *)
(*   - the ConversationOrchestrator (handleSendMessage, handleUploadFile), *)
(*   - the CredentialStore (tokenUtils, sessionUtils over Web Storage),     *)
(*   - the AuthSession (authService: login, logout, isAuthenticated).      *)
(* Every asynchronous handler is cut at its awaits: one action per         *)
(* synchronous block, as the event loop runs it.                           *)
(***************************************************************************)
EXTENDS Naturals, Integers, Sequences, FiniteSets, TLC

(* ---------------------------------------------------------------------- *)
(* Bounds and inputs                                                       *)
(* ---------------------------------------------------------------------- *)

\* number of handler invocations (flows) one behaviour may start
MaxFlows == 2

Flows == 1..MaxFlows

\* texts the user may send, names of the files the user may upload
Contents == {"How do I return an item?"}
FileNames == {"doc.pdf"}

\* JavaScript null / the absence of a value
Null == "null"

(* ---------------------------------------------------------------------- *)
(* Program constants                                                       *)
(* ---------------------------------------------------------------------- *)

MAX_RETRIES == 2

QueryUrl == "/rag/query"
CsrfUrl == "/auth/csrf"
LoginUrl == "/auth/login"
UploadUrl == "/data/upload/1"
ProcessUrl == "/data/process/1"
GdprUrl == "/gdpr/delete"

(* ---------------------------------------------------------------------- *)
(* Failures the transport hands to the response interceptor                *)
(* ---------------------------------------------------------------------- *)

\* statuses of the error responses the backend may give
ErrorStatuses == {404, 500}

StatusMessage(s) ==
    CASE s = 401 -> "Request failed with status code 401"
      [] s = 404 -> "Request failed with status code 404"
      [] s = 500 -> "Request failed with status code 500"

\* response.data.detail of an error response; "": the payload has none
StatusDetail(s) ==
    CASE s = 401 -> "Invalid credentials"
      [] s = 404 -> "Not Found"
      [] OTHER -> ""

\* no response: the connection could not be established
\* isError: the value is an instance of Error, as every AxiosError is
NetworkFailure ==
    [isError |-> TRUE, message |-> "Network Error", hasResponse |-> FALSE,
     status |-> 0, detail |-> ""]

\* no response: the request exceeded `timeout: 60000`
TimeoutFailure ==
    [isError |-> TRUE, message |-> "timeout of 60000ms exceeded",
     hasResponse |-> FALSE, status |-> 0, detail |-> ""]

HttpFailure(s) ==
    [isError |-> TRUE, message |-> StatusMessage(s), hasResponse |-> TRUE,
     status |-> s, detail |-> StatusDetail(s)]

AxiosErrors == {NetworkFailure, TimeoutFailure} \cup {HttpFailure(s) : s \in ErrorStatuses}

\* the words of a message: String.prototype.includes is decided on them
Words(message) ==
    CASE message = "Network Error" -> <<"Network", "Error">>
      [] message = "timeout of 60000ms exceeded" ->
            <<"timeout", "of", "60000ms", "exceeded">>
      [] message = "Request failed with status code 404" ->
            <<"Request", "failed", "with", "status", "code", "404">>
      [] message = "Request failed with status code 500" ->
            <<"Request", "failed", "with", "status", "code", "500">>
      [] OTHER -> <<message>>

includes(message, sub) == \E i \in DOMAIN Words(message) : Words(message)[i] = sub

isNetworkError(error) ==
    /\ error.isError
    /\ \/ includes(error.message, "Network")
       \/ includes(error.message, "fetch")
       \/ includes(error.message, "ERR_NETWORK")

isTimeoutError(error) ==
    /\ error.isError
    /\ \/ includes(error.message, "timeout")
       \/ includes(error.message, "TIMEOUT")

\* mutant: every failure is taken for a transient one
getRetryableError_Always(error) ==
    isNetworkError(error) \/ isTimeoutError(error) \/ error.hasResponse

\* mutant: server errors are taken for transient ones
getRetryableError_ServerToo(error) ==
    isNetworkError(error) \/ isTimeoutError(error) \/ error.status >= 500

getRetryableError(error) == isNetworkError(error) \/ isTimeoutError(error)

(* ---------------------------------------------------------------------- *)
(* ConversationStore                                                       *)
(* ---------------------------------------------------------------------- *)

initialChatState ==
    [messages |-> <<>>, isLoading |-> FALSE, error |-> Null, sessionId |-> ""]

\* mutant: a new message is put in front of the log
chatReducer_Prepend(s, action) ==
    CASE action.type = "ADD_MESSAGE" ->
            [s EXCEPT !.messages = <<action.payload>> \o s.messages]
      [] action.type = "SET_LOADING" -> [s EXCEPT !.isLoading = action.payload]
      [] action.type = "SET_ERROR" ->
            [s EXCEPT !.error = action.payload, !.isLoading = FALSE]
      [] action.type = "CLEAR_ERROR" -> [s EXCEPT !.error = Null]
      [] action.type = "CLEAR_MESSAGES" -> [s EXCEPT !.messages = <<>>]
      [] action.type = "SET_SESSION_ID" -> [s EXCEPT !.sessionId = action.payload]
      [] OTHER -> s

\* mutant: SET_ERROR leaves the loading flag alone
chatReducer_ErrorKeepsLoading(s, action) ==
    CASE action.type = "ADD_MESSAGE" ->
            [s EXCEPT !.messages = Append(s.messages, action.payload)]
      [] action.type = "SET_LOADING" -> [s EXCEPT !.isLoading = action.payload]
      [] action.type = "SET_ERROR" -> [s EXCEPT !.error = action.payload]
      [] action.type = "CLEAR_ERROR" -> [s EXCEPT !.error = Null]
      [] action.type = "CLEAR_MESSAGES" -> [s EXCEPT !.messages = <<>>]
      [] action.type = "SET_SESSION_ID" -> [s EXCEPT !.sessionId = action.payload]
      [] OTHER -> s

chatReducer(s, action) ==
    CASE action.type = "ADD_MESSAGE" ->
            [s EXCEPT !.messages = Append(s.messages, action.payload)]
      [] action.type = "SET_LOADING" -> [s EXCEPT !.isLoading = action.payload]
      [] action.type = "SET_ERROR" ->
            [s EXCEPT !.error = action.payload, !.isLoading = FALSE]
      [] action.type = "CLEAR_ERROR" -> [s EXCEPT !.error = Null]
      [] action.type = "CLEAR_MESSAGES" -> [s EXCEPT !.messages = <<>>]
      [] action.type = "SET_SESSION_ID" -> [s EXCEPT !.sessionId = action.payload]
      [] OTHER -> s

\* ChatProvider's dispatching helpers
addMessage(s, message) == chatReducer(s, [type |-> "ADD_MESSAGE", payload |-> message])
setLoading(s, b) == chatReducer(s, [type |-> "SET_LOADING", payload |-> b])
setError(s, e) == chatReducer(s, [type |-> "SET_ERROR", payload |-> e])
clearError(s) == chatReducer(s, [type |-> "CLEAR_ERROR"])

(* ---------------------------------------------------------------------- *)
(* CredentialStore: tokenUtils.ts and sessionUtils.ts over Web Storage     *)
(* ---------------------------------------------------------------------- *)

\* number of identifiers generateUUID may draw in one behaviour
MaxUuids == 4

TOKEN_KEY == "supportrag_auth_token"
USER_ID_KEY == "supportrag_user_id"
CSRF_TOKEN_KEY == "supportrag_csrf_token"
SESSION_ID_KEY == "supportrag_session_id"

\* values the callers store
AuthTokens == {"token-1", "token-2"}
CsrfTokens == {"csrf-1"}
UserIds == {7}

\* the operations of a Storage object; a storage condition is the set of
\* those that throw (access denied, quota exceeded)
StorageOps == {"getItem", "setItem", "removeItem"}

\* localStorage (durable) and sessionStorage (tab-scoped) with nothing stored,
\* and the number of identifiers drawn so far
EmptyStore ==
    [local |-> [k \in {TOKEN_KEY, USER_ID_KEY} |-> Null],
     session |-> [k \in {SESSION_ID_KEY, CSRF_TOKEN_KEY} |-> Null],
     uuids |-> 0]

\* undefined, the value of a call that returns nothing
Void == "undefined"

\* the outcome of a call on store c: it returns v, or it throws
Return(c, v) == [ret |-> v, threw |-> FALSE, store |-> c]
Throw(c) == [ret |-> Void, threw |-> TRUE, store |-> c]

\* try { r } catch { h }
Catch(r, h) == IF r.threw THEN h ELSE r

\* a value in a condition: null and the empty string are falsy
Truthy(v) == v # Null /\ v # ""

\* Storage.prototype.getItem / setItem / removeItem on area a of store c,
\* under the storage condition t
getItem(c, a, key, t) ==
    IF "getItem" \in t THEN Throw(c) ELSE Return(c, c[a][key])
setItem(c, a, key, v, t) ==
    IF "setItem" \in t THEN Throw(c) ELSE Return([c EXCEPT ![a][key] = v], Void)
removeItem(c, a, key, t) ==
    IF "removeItem" \in t THEN Throw(c) ELSE Return([c EXCEPT ![a][key] = Null], Void)

\* the k-th identifier Math.random yields: 122 random bits, taken as distinct
\* from every identifier drawn before
UUID(k) == "uuid-" \o ToString(k)

generateUUID(c) == Return([c EXCEPT !.uuids = @ + 1], UUID(c.uuids + 1))

\* mutant: the new identifier is returned without being persisted
getSessionId_NoPersist(c, t) ==
    LET existing == getItem(c, "session", SESSION_ID_KEY, t)
    IN  IF existing.threw THEN generateUUID(c)
        ELSE IF Truthy(existing.ret) THEN existing
        ELSE generateUUID(c)

getSessionId(c, t) ==
    LET existing == getItem(c, "session", SESSION_ID_KEY, t)
    IN  IF existing.threw THEN generateUUID(c)
        ELSE IF Truthy(existing.ret) THEN existing
        ELSE LET newId == generateUUID(c)
                 set == setItem(newId.store, "session", SESSION_ID_KEY, newId.ret, t)
             IN  IF set.threw THEN generateUUID(set.store)
                 ELSE Return(set.store, newId.ret)

clearSessionId(c, t) ==
    Catch(removeItem(c, "session", SESSION_ID_KEY, t), Return(c, Void))

regenerateSessionId(c, t) == getSessionId(clearSessionId(c, t).store, t)

\* mutant: no try/catch around the read
getAuthToken_NoCatch(c, t) == getItem(c, "local", TOKEN_KEY, t)

getAuthToken(c, t) == Catch(getItem(c, "local", TOKEN_KEY, t), Return(c, Null))

setAuthToken(c, token, t) ==
    Catch(setItem(c, "local", TOKEN_KEY, token, t), Return(c, Void))

removeAuthToken(c, t) ==
    Catch(removeItem(c, "local", TOKEN_KEY, t), Return(c, Void))

\* parseInt(id, 10) on a string written by Number.prototype.toString
parseInt(id) == CHOOSE n \in UserIds : ToString(n) = id

\* a number the caller gets is written in decimal in the record of the call
getUserId(c, t) ==
    LET id == getItem(c, "local", USER_ID_KEY, t)
    IN  IF id.threw THEN Return(c, Null)
        ELSE IF Truthy(id.ret) THEN Return(c, ToString(parseInt(id.ret)))
        ELSE Return(c, Null)

setUserId(c, id, t) ==
    Catch(setItem(c, "local", USER_ID_KEY, ToString(id), t), Return(c, Void))

removeUserId(c, t) ==
    Catch(removeItem(c, "local", USER_ID_KEY, t), Return(c, Void))

clearAuth(c, t) == removeUserId(removeAuthToken(c, t).store, t)

getCsrfToken(c, t) ==
    Catch(getItem(c, "session", CSRF_TOKEN_KEY, t), Return(c, Null))

setCsrfToken(c, token, t) ==
    Catch(setItem(c, "session", CSRF_TOKEN_KEY, token, t), Return(c, Void))

removeCsrfToken(c, t) ==
    Catch(removeItem(c, "session", CSRF_TOKEN_KEY, t), Return(c, Void))

(* ---------------------------------------------------------------------- *)
(* AuthSession: the local operations of authService                        *)
(* ---------------------------------------------------------------------- *)

\* a boolean the caller gets, as written in the record of the call
Bool(b) == IF b THEN "true" ELSE "false"

\* mutant: logout also drops the CSRF token
logout_AlsoCsrf(c, t) == removeCsrfToken(clearAuth(c, t).store, t)

\* mutant: logout also starts a new conversational session
logout_RotatesSession(c, t) ==
    Return(regenerateSessionId(clearAuth(c, t).store, t).store, Void)

logout(c, t) == clearAuth(c, t)

\* mutant: the check looks at the user id
isAuthenticated_ByUserId(c, t) ==
    LET item == getItem(c, "local", USER_ID_KEY, t)
    IN  IF item.threw THEN item ELSE Return(c, Bool(Truthy(item.ret)))

\* !!localStorage.getItem('supportrag_auth_token'), outside any try block
isAuthenticated(c, t) ==
    LET item == getItem(c, "local", TOKEN_KEY, t)
    IN  IF item.threw THEN item ELSE Return(c, Bool(Truthy(item.ret)))

(* ---------------------------------------------------------------------- *)
(* State                                                                   *)
(* ---------------------------------------------------------------------- *)

VARIABLES
    state,  \* the ChatState held by ChatProvider's useReducer
    flow,   \* per handler invocation: which handler, where it is suspended
    req,    \* per handler invocation: the request it is awaiting
    store,  \* localStorage, sessionStorage and the identifiers drawn so far
    throws, \* the storage condition: the Storage operations that throw
    last,   \* the latest call a caller made on CredentialStore or AuthSession
    ui,     \* the useState values of the components: App, Login,
            \* InputField, ChatProvider's useSession, Footer
    dispatched  \* the actions a caller of the reducer dispatched, in order

vars == <<state, flow, req, store, throws, last, ui, dispatched>>

NoData == [empty |-> TRUE]

HeaderNames == {"X-Session-ID", "Authorization", "X-CSRF-Token"}
NoHeaders == [h \in HeaderNames |-> Null]

\* op, ret, threw: the call, what it returned, whether it threw to its caller
\* before: the store when the call was made
\* sid: what getSessionId returned last, since the latest reset of the id
\* prev: for a getSessionId call, the value of sid when the call was made
\* again: the call before this one was a call of the same operation
NoCall ==
    [op |-> "none", ret |-> Void, threw |-> FALSE, before |-> EmptyStore,
     prev |-> Null, sid |-> Null, again |-> FALSE]

NoError ==
    [isError |-> FALSE, message |-> "", hasResponse |-> FALSE, status |-> 0,
     detail |-> ""]

\* status: none | inflight | delay (inside the RETRY_DELAY timer) | resolved | rejected
\* retryCount: config._retryCount (absent reads as 0, api.ts line 57)
\* dispatches: how often the request went out
\* error: the failure the interceptor is handling or has surfaced
\* logs: console.error calls made for this request
\* headers: the identity headers set on the config
NoRequest ==
    [status |-> "none", url |-> "", params |-> NoData, retryCount |-> 0,
     dispatches |-> 0, error |-> NoError, data |-> NoData, logs |-> 0,
     headers |-> NoHeaders]

\* retried: the gateway reissued a call of this invocation (noted by
\* RetryObserved only)
IdleFlow ==
    [kind |-> "none", pc |-> "idle", arg |-> "", calls |-> <<>>,
     result |-> "none", solo |-> FALSE, retried |-> FALSE]

\* App: isAuthenticated false, isLoading true until the mount effect has run
\* Login: no error shown, not submitting
\* InputField: the file picker opened by the upload button is not open
\* hook: ChatProvider's useSession: its sessionId, whether a render whose
\*   sync effect has not run yet is committed, the callback called last
\* footer: the mounted Footer's useSession value, its three useState values,
\*   and the invocations of its handleDelete that are suspended
initialUi ==
    [app |-> [isAuthenticated |-> FALSE, isLoading |-> TRUE],
     login |-> [error |-> Null, isLoading |-> FALSE],
     input |-> [picker |-> FALSE],
     hook |-> [sessionId |-> "", effect |-> FALSE, op |-> "none"],
     footer |-> [sessionId |-> "", showDeleteModal |-> FALSE,
                 isDeleting |-> FALSE, deleteStatus |-> Null, own |-> {}]]

Init ==
    /\ state = initialChatState
    /\ flow = [f \in Flows |-> IdleFlow]
    /\ req = [f \in Flows |-> NoRequest]
    /\ store = EmptyStore
    /\ throws = {}
    /\ last = NoCall
    /\ ui = initialUi
    /\ dispatched = <<>>

InProgress(f) == flow[f].pc \notin {"idle", "done"}

(* ---------------------------------------------------------------------- *)
(* RequestGateway                                                          *)
(* ---------------------------------------------------------------------- *)

\* apiClient.post(url, ...): a new request config, dispatched once
apiClientPost(url, params) ==
    [NoRequest EXCEPT !.status = "inflight", !.url = url, !.params = params,
                      !.dispatches = 1]

\* request interceptor: the identity headers are read from store c and set on
\* the config; an exception in it would reject the request
requestInterceptor(config, c, t) ==
    LET sessionId == getSessionId(c, t)
        token == getAuthToken(sessionId.store, t)
        csrfToken == getCsrfToken(sessionId.store, t)
        h1 == IF Truthy(sessionId.ret)
              THEN [config.headers EXCEPT !["X-Session-ID"] = sessionId.ret]
              ELSE config.headers
        h2 == IF Truthy(token.ret)
              THEN [h1 EXCEPT !["Authorization"] = "Bearer " \o token.ret]
              ELSE h1
        h3 == IF Truthy(csrfToken.ret)
              THEN [h2 EXCEPT !["X-CSRF-Token"] = csrfToken.ret]
              ELSE h2
    IN  IF sessionId.threw \/ token.threw \/ csrfToken.threw
        THEN [config |-> [config EXCEPT !.status = "rejected"], store |-> sessionId.store]
        ELSE [config |-> [config EXCEPT !.headers = h3], store |-> sessionId.store]

\* apiClient.get(url): a new request config, dispatched once
apiClientGet(url) ==
    [NoRequest EXCEPT !.status = "inflight", !.url = url, !.dispatches = 1]

\* response interceptor, fulfilled side: the response passes through
onFulfilled(r, data) ==
    [r EXCEPT !.status = "resolved", !.data = data]

\* mutant: the budget test is off by one
onRejected_OffByOne(r, error) ==
    IF getRetryableError(error) /\ r.retryCount <= MAX_RETRIES
    THEN [r EXCEPT !.retryCount = @ + 1, !.status = "delay", !.error = error]
    ELSE [r EXCEPT !.status = "rejected", !.error = error,
                   !.logs = IF ~error.hasResponse \/ error.status >= 500
                            THEN @ + 1 ELSE @]

\* mutant: an attempt that is going to be retried is logged too
onRejected_LogsRetries(r, error) ==
    IF getRetryableError(error) /\ r.retryCount < MAX_RETRIES
    THEN [r EXCEPT !.retryCount = @ + 1, !.status = "delay", !.error = error,
                   !.logs = @ + 1]
    ELSE [r EXCEPT !.status = "rejected", !.error = error,
                   !.logs = IF ~error.hasResponse \/ error.status >= 500
                            THEN @ + 1 ELSE @]

\* response interceptor, rejected side
onRejected(r, error) ==
    IF getRetryableError(error) /\ r.retryCount < MAX_RETRIES
    THEN [r EXCEPT !.retryCount = @ + 1, !.status = "delay", !.error = error]
    ELSE [r EXCEPT !.status = "rejected", !.error = error,
                   !.logs = IF ~error.hasResponse \/ error.status >= 500
                            THEN @ + 1 ELSE @]

\* `return apiClient(originalRequest)` once the RETRY_DELAY timer has fired
reissue(r) == [r EXCEPT !.status = "inflight", !.dispatches = @ + 1, !.error = NoError]

\* the backend's answers, by endpoint
RagResponses ==
    {[response |-> "Our policy allows 30-day returns.",
      retrieved_chunks |->
          <<[chunk_id |-> 1, asset_id |-> 500, similarity_score |-> 95,
             metadata |-> [k \in {} |-> ""]]>>]}
UploadResponses == {[asset_id |-> 7]}
ProcessResponses == {[task_id |-> "t1", status |-> "queued"]}
GdprResponses == {[status |-> "success", message |-> "Deleted"]}

CsrfResponses == {[csrf_token |-> token] : token \in {"", "csrf-1", "csrf-2"}}
LoginResponses ==
    {[access_token |-> token, token_type |-> "bearer", user_id |-> id] :
        token \in AuthTokens, id \in UserIds}

ResponsesFor(url) ==
    CASE url = QueryUrl -> RagResponses
      [] url = UploadUrl -> UploadResponses
      [] url = ProcessUrl -> ProcessResponses
      [] url = CsrfUrl -> CsrfResponses
      [] url = LoginUrl -> LoginResponses
      [] url = GdprUrl -> GdprResponses

\* the config goes out in slot f, through the request interceptor, with the
\* store as c
Dispatch(f, config, c) ==
    LET sent == requestInterceptor(config, c, throws)
    IN  /\ sent.store.uuids <= MaxUuids
        /\ req' = [req EXCEPT ![f] = sent.config]
        /\ store' = sent.store

\* the attempt in flight succeeds and the caller gets the response
RespondOk(f) ==
    /\ req[f].status = "inflight"
    /\ \E data \in ResponsesFor(req[f].url) :
           req' = [req EXCEPT ![f] = onFulfilled(@, data)]
    /\ UNCHANGED <<state, flow, store, throws, last, ui, dispatched>>

\* mutant: one retry counter shared by all the requests
RespondError_SharedBudget(f) ==
    /\ req[f].status = "inflight"
    /\ \E error \in AxiosErrors :
           LET r == onRejected(req[f], error)
           IN  req' = [g \in Flows |->
                          IF g = f THEN r
                          ELSE IF r.status = "delay" /\ req[g].status # "none"
                               THEN [req[g] EXCEPT !.retryCount = r.retryCount]
                               ELSE req[g]]
    /\ UNCHANGED <<state, flow, store, throws, last, ui, dispatched>>

\* the attempt in flight fails: the interceptor starts the retry delay or
\* surfaces the failure to the caller
RespondError(f) ==
    /\ req[f].status = "inflight"
    /\ \E error \in AxiosErrors :
           req' = [req EXCEPT ![f] = onRejected(@, error)]
    /\ UNCHANGED <<state, flow, store, throws, last, ui, dispatched>>

\* mutant: the retry timer never fires
RetryTimer_Lost(f) ==
    /\ req[f].status = "delay"
    /\ FALSE
    /\ UNCHANGED vars

\* the retry timer fires and the same request goes out again
RetryTimer(f) ==
    /\ req[f].status = "delay"
    /\ Dispatch(f, reissue(req[f]), store)
    /\ UNCHANGED <<state, flow, throws, last, ui, dispatched>>

(* ---------------------------------------------------------------------- *)
(* chatService.sendMessage: the response mapped into an assistant message  *)
(* ---------------------------------------------------------------------- *)

\* chunk.metadata?.key, the empty string standing for a missing value
Meta(chunk, key) ==
    IF key \in DOMAIN chunk.metadata THEN chunk.metadata[key] ELSE ""

\* a || b on strings
OrElse(a, b) == IF a # "" THEN a ELSE b

\* mutant: the citation's url prefers metadata.source
toChatSource_SourceFirst(chunk) ==
    [title |-> OrElse(Meta(chunk, "title"),
                      OrElse(Meta(chunk, "filename"),
                             "Document " \o ToString(chunk.asset_id))),
     url |-> OrElse(Meta(chunk, "source"), OrElse(Meta(chunk, "url"), "")),
     relevance_score |-> chunk.similarity_score]

toChatSource(chunk) ==
    [title |-> OrElse(Meta(chunk, "title"),
                      OrElse(Meta(chunk, "filename"),
                             "Document " \o ToString(chunk.asset_id))),
     url |-> OrElse(Meta(chunk, "url"), OrElse(Meta(chunk, "source"), "")),
     relevance_score |-> chunk.similarity_score]

toChatMessage(id, ragResponse) ==
    [id |-> id, role |-> "assistant", content |-> ragResponse.response,
     status |-> "sent",
     sources |-> [i \in DOMAIN ragResponse.retrieved_chunks |->
                     toChatSource(ragResponse.retrieved_chunks[i])]]

(* ---------------------------------------------------------------------- *)
(* ConversationOrchestrator                                                *)
(* ---------------------------------------------------------------------- *)

\* generateUUID() / `${Date.now()}-${Math.random()}`: the k-th identifier drawn
\* by invocation f, distinct from every other one
NewId(f, k) == <<f, k>>

\* a message's timestamp (Date.now()) is payload no modelled code reads
userMessage(f, content) ==
    [id |-> NewId(f, 1), role |-> "user", content |-> content, status |-> "sent"]

\* mutant: a breadcrumb carries a confidence score
systemMessage_WithScore(f, k, content) ==
    [id |-> NewId(f, k), role |-> "system", content |-> content,
     confidence_score |-> 0]

systemMessage(f, k, content) ==
    [id |-> NewId(f, k), role |-> "system", content |-> content]

UploadingText(name) == "Uploading " \o name \o "..."
UploadedText(name) == "File uploaded. Processing " \o name \o "..."
SuccessText(name) == name \o " processed and indexed successfully."
FailedText(name) == "Failed to process " \o name \o "."

\* a handler starts in slot f: it runs alone iff no other invocation is
\* suspended now, and every suspended one stops running alone
Started(f, kind, arg, url) ==
    [g \in Flows |->
        IF g = f
        THEN [kind |-> kind, pc |-> "await", arg |-> arg,
              calls |-> <<[url |-> url, outcome |-> "pending"]>>,
              result |-> "none", solo |-> \A h \in Flows : ~InProgress(h),
              retried |-> FALSE]
        ELSE IF InProgress(g) THEN [flow[g] EXCEPT !.solo = FALSE] ELSE flow[g]]

\* mutant: the user's message is not written before the call
sendStart_NoUserMessage(s, f, content) == setLoading(s, TRUE)

\* mutant: handleSendMessage clears the error slot as handleUploadFile does
sendStart_ClearsError(s, f, content) ==
    addMessage(clearError(setLoading(s, TRUE)), userMessage(f, content))

\* handleSendMessage up to its await
sendStart(s, f, content) == setLoading(addMessage(s, userMessage(f, content)), TRUE)

\* mutant: no finally block on the success path
sendResolved_NoFinally(s, f, data) == addMessage(s, toChatMessage(NewId(f, 2), data))

\* mutant: an answered query resets the error slot
sendResolved_ClearsError(s, f, data) ==
    setLoading(setError(addMessage(s, toChatMessage(NewId(f, 2), data)), Null), FALSE)

\* handleSendMessage, try block after the await
sendResolved(s, f, data) == setLoading(addMessage(s, toChatMessage(NewId(f, 2), data)), FALSE)

\* err instanceof Error ? err.message : fallback
messageOf(err, fallback) == IF err.isError THEN err.message ELSE fallback

\* mutant: the catch block swallows the failure
sendRejected_Swallowed(s, error) == setLoading(s, FALSE)

\* handleSendMessage, catch and finally (an AxiosError is an Error)
sendRejected(s, error) ==
    setLoading(setError(s, messageOf(error, "Failed to send message")), FALSE)

\* mutant: a stale error is not cleared
uploadStart_KeepError(s, f, name) ==
    addMessage(setLoading(s, TRUE), systemMessage(f, 1, UploadingText(name)))

\* handleUploadFile up to its first await
uploadStart(s, f, name) ==
    addMessage(clearError(setLoading(s, TRUE)), systemMessage(f, 1, UploadingText(name)))

\* handleUploadFile between the two awaits
uploadResolved(s, f, name) == addMessage(s, systemMessage(f, 2, UploadedText(name)))

\* mutant: the upload flow ends without its finally block
processResolved_NoFinally(s, f, name) ==
    addMessage(s, systemMessage(f, 3, SuccessText(name)))

\* handleUploadFile after the second await, and finally
processResolved(s, f, name) ==
    setLoading(addMessage(s, systemMessage(f, 3, SuccessText(name))), FALSE)

\* mutant: the failure leaves no breadcrumb
uploadRejected_NoBreadcrumb(s, f, k, name, error) ==
    setLoading(setError(s, messageOf(error, "Upload or processing failed")), FALSE)

\* handleUploadFile, catch and finally; k - 1 breadcrumbs were written before
uploadRejected(s, f, k, name, error) ==
    setLoading(addMessage(setError(s, messageOf(error, "Upload or processing failed")),
                          systemMessage(f, k, FailedText(name))), FALSE)

\* the record of invocation f's calls: the awaited one is settled
Settled(f, outcome) ==
    [flow[f].calls EXCEPT ![Len(flow[f].calls)].outcome = outcome]

\* handleSendMessage(content) up to its await, as invocation f
onSendMessage(f, content) ==
    /\ flow[f].pc = "idle"
    /\ \A g \in Flows : g < f => flow[g].pc # "idle"
    /\ state' = sendStart(state, f, content)
    /\ flow' = Started(f, "send", content, QueryUrl)
    /\ Dispatch(f, apiClientPost(QueryUrl, [query |-> content, project_id |-> 1]),
                store)
    /\ UNCHANGED <<throws, last, ui, dispatched>>

HandleSendMessage(f) == \E content \in Contents : onSendMessage(f, content)

\* the query is answered: interceptor, sendMessage and the handler's try and
\* finally blocks run in the same turn of the event loop
SendMessageResolved(f) ==
    /\ flow[f].kind = "send" /\ flow[f].pc = "await"
    /\ req[f].status = "inflight"
    /\ \E data \in ResponsesFor(req[f].url) :
          LET r == onFulfilled(req[f], data)
          IN  state' = sendResolved(state, f, r.data)
    /\ flow' = [flow EXCEPT ![f].pc = "done", ![f].result = "succeeded",
                            ![f].calls = Settled(f, "resolved")]
    /\ req' = [req EXCEPT ![f] = NoRequest]
    /\ UNCHANGED <<store, throws, last, ui, dispatched>>

\* the query fails and the interceptor surfaces the failure: catch and finally
SendMessageRejected(f) ==
    /\ flow[f].kind = "send" /\ flow[f].pc = "await"
    /\ req[f].status = "inflight"
    /\ \E error \in AxiosErrors :
          LET r == onRejected(req[f], error)
          IN  /\ r.status = "rejected"
              /\ state' = sendRejected(state, r.error)
    /\ flow' = [flow EXCEPT ![f].pc = "done", ![f].result = "failed",
                            ![f].calls = Settled(f, "rejected")]
    /\ req' = [req EXCEPT ![f] = NoRequest]
    /\ UNCHANGED <<store, throws, last, ui, dispatched>>

\* handleUploadFile(file) up to its first await, as invocation f; the
\* component that calls it says what becomes of ui
onUploadFile(f, name) ==
    /\ flow[f].pc = "idle"
    /\ \A g \in Flows : g < f => flow[g].pc # "idle"
    /\ state' = uploadStart(state, f, name)
    /\ flow' = Started(f, "upload", name, UploadUrl)
    /\ Dispatch(f, apiClientPost(UploadUrl, [file |-> name]), store)
    /\ UNCHANGED <<throws, last, dispatched>>

HandleUploadFile(f) ==
    \E name \in FileNames : onUploadFile(f, name) /\ UNCHANGED ui

\* mutant: the upload's failure does not end the try block
UploadResolved_IgnoreFailure(f) ==
    /\ flow[f].kind = "upload" /\ flow[f].pc = "await"
    /\ req[f].url = UploadUrl /\ req[f].status = "inflight"
    /\ \E error \in AxiosErrors :
          LET r == onRejected(req[f], error)
          IN  /\ r.status = "rejected"
              /\ Dispatch(f, apiClientPost(ProcessUrl,
                                            [asset_id |-> 0, chunk_size |-> 512,
                                             overlap_size |-> 50]), store)
    /\ UNCHANGED <<throws, last, ui, dispatched>>
    /\ state' = uploadResolved(state, f, flow[f].arg)
    /\ flow' = [flow EXCEPT ![f].calls =
                   Append(Settled(f, "rejected"),
                          [url |-> ProcessUrl, outcome |-> "pending"])]

\* the upload is answered: the second breadcrumb and the process call
UploadResolved(f) ==
    /\ flow[f].kind = "upload" /\ flow[f].pc = "await"
    /\ req[f].url = UploadUrl /\ req[f].status = "inflight"
    /\ \E data \in ResponsesFor(req[f].url) :
          LET r == onFulfilled(req[f], data)
          IN  Dispatch(f, apiClientPost(ProcessUrl,
                                        [asset_id |-> r.data.asset_id,
                                         chunk_size |-> 512, overlap_size |-> 50]),
                       store)
    /\ UNCHANGED <<throws, last, ui, dispatched>>
    /\ state' = uploadResolved(state, f, flow[f].arg)
    /\ flow' = [flow EXCEPT ![f].calls =
                   Append(Settled(f, "resolved"),
                          [url |-> ProcessUrl, outcome |-> "pending"])]

\* mutant: the process call is not awaited
ProcessResolved_NoAwait(f) ==
    /\ flow[f].kind = "upload" /\ flow[f].pc = "await"
    /\ req[f].url = ProcessUrl /\ req[f].status \in {"inflight", "delay"}
    /\ state' = processResolved(state, f, flow[f].arg)
    /\ flow' = [flow EXCEPT ![f].pc = "done", ![f].result = "succeeded",
                            ![f].calls = Settled(f, "resolved")]
    /\ req' = [req EXCEPT ![f] = NoRequest]
    /\ UNCHANGED <<store, throws, last, ui, dispatched>>

\* the process call is answered: the success breadcrumb, finally
ProcessResolved(f) ==
    /\ flow[f].kind = "upload" /\ flow[f].pc = "await"
    /\ req[f].url = ProcessUrl /\ req[f].status = "inflight"
    /\ \E data \in ResponsesFor(req[f].url) :
          LET r == onFulfilled(req[f], data)
          IN  r.status = "resolved"
    /\ state' = processResolved(state, f, flow[f].arg)
    /\ flow' = [flow EXCEPT ![f].pc = "done", ![f].result = "succeeded",
                            ![f].calls = Settled(f, "resolved")]
    /\ req' = [req EXCEPT ![f] = NoRequest]
    /\ UNCHANGED <<store, throws, last, ui, dispatched>>

\* either call fails and the interceptor surfaces the failure: catch, finally
UploadRejected(f) ==
    /\ flow[f].kind = "upload" /\ flow[f].pc = "await"
    /\ req[f].status = "inflight"
    /\ \E error \in AxiosErrors :
          LET r == onRejected(req[f], error)
          IN  /\ r.status = "rejected"
              /\ state' = uploadRejected(state, f, Len(flow[f].calls) + 1,
                                         flow[f].arg, r.error)
    /\ flow' = [flow EXCEPT ![f].pc = "done", ![f].result = "failed",
                            ![f].calls = Settled(f, "rejected")]
    /\ req' = [req EXCEPT ![f] = NoRequest]
    /\ UNCHANGED <<store, throws, last, ui, dispatched>>

\* a call of a suspended handler fails and the interceptor starts the retry
\* delay: the handler stays suspended
\* mutant: the interceptor reports the failed attempt in the error slot
RespondRetryIn_Reported(f, flows) ==
    /\ InProgress(f)
    /\ req[f].status = "inflight"
    /\ \E error \in AxiosErrors :
          LET r == onRejected(req[f], error)
          IN  /\ r.status = "delay"
              /\ req' = [req EXCEPT ![f] = r]
              /\ state' = setError(state, error.message)
    /\ flow' = flows
    /\ UNCHANGED <<store, throws, last, ui, dispatched>>

\* flows: the invocations with what is noted of the retry
RespondRetryIn(f, flows) ==
    /\ InProgress(f)
    /\ req[f].status = "inflight"
    /\ \E error \in AxiosErrors :
          LET r == onRejected(req[f], error)
          IN  /\ r.status = "delay"
              /\ req' = [req EXCEPT ![f] = r]
    /\ flow' = flows
    /\ UNCHANGED <<state, store, throws, last, ui, dispatched>>

RespondRetry(f) == RespondRetryIn(f, flow)

\* the same step, with the retry noted in the invocation's record
RetryObserved(f) == RespondRetryIn(f, [flow EXCEPT ![f].retried = TRUE])

\* AlertBox onClose={clearError}; the box is rendered only while error is set
DismissError ==
    /\ state.error # Null
    /\ state' = clearError(state)
    /\ UNCHANGED <<flow, req, store, throws, last, ui, dispatched>>

Next ==
    \/ \E f \in Flows : HandleSendMessage(f)
    \/ \E f \in Flows : SendMessageResolved(f)
    \/ \E f \in Flows : SendMessageRejected(f)
    \/ \E f \in Flows : HandleUploadFile(f)
    \/ \E f \in Flows : UploadResolved(f)
    \/ \E f \in Flows : ProcessResolved(f)
    \/ \E f \in Flows : UploadRejected(f)
    \/ \E f \in Flows : RespondRetry(f)
    \/ \E f \in Flows : RetryTimer(f)
    \/ DismissError

\* the orchestrator over the gateway
Spec == Init /\ [][Next]_vars

(* ---------------------------------------------------------------------- *)
(* The RequestGateway alone: callers post requests and look at the outcome *)
(* ---------------------------------------------------------------------- *)

\* a caller posts a request (its earlier one, if any, has settled)
Post(f) ==
    /\ req[f].status \in {"none", "resolved", "rejected"}
    /\ \E url \in {QueryUrl, UploadUrl, ProcessUrl} :
          Dispatch(f, apiClientPost(url, NoData), store)
    /\ UNCHANGED <<state, flow, throws, last, ui, dispatched>>

GatewayNext ==
    \/ \E f \in Flows : Post(f)
    \/ \E f \in Flows : RespondOk(f)
    \/ \E f \in Flows : RespondError(f)
    \/ \E f \in Flows : RetryTimer(f)

SpecGateway == Init /\ [][GatewayNext]_vars

(* ---------------------------------------------------------------------- *)
(* The CredentialStore and the local AuthSession operations alone: callers *)
(* call them in any order, under any storage condition                     *)
(* ---------------------------------------------------------------------- *)

\* the record of a call op whose outcome is r
Recorded(op, r) ==
    [op |-> op, ret |-> r.ret, threw |-> r.threw,
     before |-> store,
     prev |-> IF op = "getSessionId" THEN last.sid ELSE Null,
     sid |-> IF r.threw THEN last.sid
             ELSE IF op \in {"getSessionId", "regenerateSessionId"} THEN r.ret
             ELSE IF op = "clearSessionId" THEN Null
             ELSE last.sid,
     again |-> last.op = op]

\* a caller calls op: the store is as the call leaves it, also when it throws
Call(op, r) ==
    /\ r.store.uuids <= MaxUuids
    /\ store' = r.store
    /\ last' = Recorded(op, r)
    /\ UNCHANGED <<state, flow, req, throws, ui, dispatched>>

GetSessionId == Call("getSessionId", getSessionId(store, throws))
ClearSessionId == Call("clearSessionId", clearSessionId(store, throws))
RegenerateSessionId == Call("regenerateSessionId", regenerateSessionId(store, throws))
GetAuthToken == Call("getAuthToken", getAuthToken(store, throws))
SetAuthToken == \E token \in AuthTokens : Call("setAuthToken", setAuthToken(store, token, throws))
RemoveAuthToken == Call("removeAuthToken", removeAuthToken(store, throws))
GetUserId == Call("getUserId", getUserId(store, throws))
SetUserId == \E id \in UserIds : Call("setUserId", setUserId(store, id, throws))
RemoveUserId == Call("removeUserId", removeUserId(store, throws))
ClearAuth == Call("clearAuth", clearAuth(store, throws))
GetCsrfToken == Call("getCsrfToken", getCsrfToken(store, throws))
SetCsrfToken == \E token \in CsrfTokens : Call("setCsrfToken", setCsrfToken(store, token, throws))
RemoveCsrfToken == Call("removeCsrfToken", removeCsrfToken(store, throws))
Logout == Call("logout", logout(store, throws))
IsAuthenticated == Call("isAuthenticated", isAuthenticated(store, throws))

\* the page is loaded in a browser whose storage is in any condition
InitStore ==
    /\ state = initialChatState
    /\ flow = [f \in Flows |-> IdleFlow]
    /\ req = [f \in Flows |-> NoRequest]
    /\ store = EmptyStore
    /\ throws \in SUBSET StorageOps
    /\ last = NoCall
    /\ ui = initialUi
    /\ dispatched = <<>>

StoreNext ==
    \/ GetSessionId
    \/ ClearSessionId
    \/ RegenerateSessionId
    \/ GetAuthToken
    \/ SetAuthToken
    \/ RemoveAuthToken
    \/ GetUserId
    \/ SetUserId
    \/ RemoveUserId
    \/ ClearAuth
    \/ GetCsrfToken
    \/ SetCsrfToken
    \/ RemoveCsrfToken
    \/ Logout
    \/ IsAuthenticated

SpecStore == InitStore /\ [][StoreNext]_vars

(* ---------------------------------------------------------------------- *)
(* The RequestGateway under changing credentials: one caller posts         *)
(* requests while tokens are stored, rotated and removed                   *)
(* ---------------------------------------------------------------------- *)

IdentityNext ==
    \/ Post(1)
    \/ RespondOk(1)
    \/ RespondError(1)
    \/ RetryTimer(1)
    \/ SetAuthToken
    \/ Logout
    \/ SetCsrfToken
    \/ RemoveCsrfToken

SpecIdentity == Init /\ [][IdentityNext]_vars

(* ---------------------------------------------------------------------- *)
(* AuthSession: one caller logs in over the gateway, again and again, and   *)
(* calls the local operations at any time                                  *)
(* ---------------------------------------------------------------------- *)

Credentials == {[username |-> "user", password |-> "secret"]}

\* a call of login, as recorded in flow[f].calls; data: what the call gave
LoginCall(url) == [url |-> url, outcome |-> "pending", data |-> NoData]

LoginSettled(f, outcome, data) ==
    [flow[f].calls EXCEPT ![Len(flow[f].calls)] =
        [url |-> @.url, outcome |-> outcome, data |-> data]]

\* mutant: the fetched token is returned without being stored
fetchCsrfTokenResolved_NotStored(c, data, t) ==
    Return(c, IF Truthy(data.csrf_token) THEN data.csrf_token ELSE Null)

\* fetchCsrfToken, try block after the await
fetchCsrfTokenResolved(c, data, t) ==
    LET token == data.csrf_token
    IN  IF Truthy(token) THEN Return(setCsrfToken(c, token, t).store, token)
        ELSE Return(c, Null)

\* fetchCsrfToken, catch block: console.warn, return null
fetchCsrfTokenRejected(c) == Return(c, Null)

\* login after its second await: the token and the user id are stored
loginResolved(c, data, t) ==
    Return(setUserId(setAuthToken(c, data.access_token, t).store, data.user_id, t).store,
           data.access_token)

\* authService.login up to the await inside fetchCsrfToken; the caller may
\* log in again once an earlier login has ended
Login(f) ==
    /\ flow[f].pc \in {"idle", "done"}
    /\ \E credentials \in Credentials :
          flow' = [Started(f, "login", credentials.username, CsrfUrl)
                      EXCEPT ![f].calls = <<LoginCall(CsrfUrl)>>]
    /\ Dispatch(f, apiClientGet(CsrfUrl), store)
    /\ UNCHANGED <<state, throws, last, dispatched>>

\* mutant: a failed CSRF fetch ends login
CsrfRejected_Aborts(f) ==
    /\ flow[f].kind = "login" /\ flow[f].pc = "await"
    /\ req[f].url = CsrfUrl /\ req[f].status = "inflight"
    /\ \E error \in AxiosErrors :
          LET r == onRejected(req[f], error)
          IN  /\ r.status = "rejected"
              /\ flow' = [flow EXCEPT ![f].pc = "done", ![f].result = "failed",
                                      ![f].calls = LoginSettled(f, "rejected", NoData)]
    /\ req' = [req EXCEPT ![f] = NoRequest]
    /\ UNCHANGED <<state, store, throws, last, dispatched>>

\* the CSRF fetch is answered: the token is stored and the login call goes out
CsrfResolved(f) ==
    /\ flow[f].kind = "login" /\ flow[f].pc = "await"
    /\ req[f].url = CsrfUrl /\ req[f].status = "inflight"
    /\ \E data \in ResponsesFor(req[f].url), credentials \in Credentials :
          LET r == onFulfilled(req[f], data)
              fetched == fetchCsrfTokenResolved(store, r.data, throws)
          IN  /\ Dispatch(f, apiClientPost(LoginUrl, credentials), fetched.store)
              /\ flow' = [flow EXCEPT ![f].calls =
                             Append(LoginSettled(f, "resolved", r.data),
                                    LoginCall(LoginUrl))]
    /\ UNCHANGED <<state, throws, last, dispatched>>

\* the CSRF fetch fails and the interceptor surfaces the failure: the catch
\* block of fetchCsrfToken, then the login call goes out
CsrfRejected(f) ==
    /\ flow[f].kind = "login" /\ flow[f].pc = "await"
    /\ req[f].url = CsrfUrl /\ req[f].status = "inflight"
    /\ \E error \in AxiosErrors, credentials \in Credentials :
          LET r == onRejected(req[f], error)
              fetched == fetchCsrfTokenRejected(store)
          IN  /\ r.status = "rejected"
              /\ Dispatch(f, apiClientPost(LoginUrl, credentials), fetched.store)
              /\ flow' = [flow EXCEPT ![f].calls =
                             Append(LoginSettled(f, "rejected", NoData),
                                    LoginCall(LoginUrl))]
    /\ UNCHANGED <<state, throws, last, dispatched>>

\* the login call is answered: the credentials are stored, login returns data
LoginResolved(f) ==
    /\ flow[f].kind = "login" /\ flow[f].pc = "await"
    /\ req[f].url = LoginUrl /\ req[f].status = "inflight"
    /\ \E data \in ResponsesFor(req[f].url) :
          LET r == onFulfilled(req[f], data)
          IN  /\ store' = loginResolved(store, r.data, throws).store
              /\ flow' = [flow EXCEPT ![f].pc = "done", ![f].result = "succeeded",
                                      ![f].calls = LoginSettled(f, "resolved", r.data)]
    /\ req' = [req EXCEPT ![f] = NoRequest]
    /\ UNCHANGED <<state, throws, last, dispatched>>

\* the backend rejects the credentials, with a detail message or without
CredentialFailures ==
    {[HttpFailure(401) EXCEPT !.detail = d] : d \in {StatusDetail(401), ""}}

LoginErrors == AxiosErrors \cup CredentialFailures

\* the login call fails and the interceptor surfaces the failure: login
\* rejects with it
LoginRejected(f) ==
    /\ flow[f].kind = "login" /\ flow[f].pc = "await"
    /\ req[f].url = LoginUrl /\ req[f].status = "inflight"
    /\ \E error \in LoginErrors :
          LET r == onRejected(req[f], error)
          IN  /\ r.status = "rejected"
              /\ flow' = [flow EXCEPT ![f].pc = "done", ![f].result = "failed",
                                      ![f].calls = LoginSettled(f, "rejected", r.error)]
    /\ req' = [req EXCEPT ![f] = NoRequest]
    /\ UNCHANGED <<state, store, throws, last, dispatched>>

AuthNext ==
    \/ Login(1) /\ UNCHANGED ui
    \/ CsrfResolved(1) /\ UNCHANGED ui
    \/ CsrfRejected(1) /\ UNCHANGED ui
    \/ LoginResolved(1) /\ UNCHANGED ui
    \/ LoginRejected(1) /\ UNCHANGED ui
    \/ RespondRetry(1)
    \/ RetryTimer(1)
    \/ Logout
    \/ IsAuthenticated
    \/ SetAuthToken
    \/ RemoveAuthToken

SpecAuth == Init /\ [][AuthNext]_vars

(* ---------------------------------------------------------------------- *)
(* The App gate and the Login screen: App shows the Login screen until a   *)
(* login has succeeded, the chat interface until the user logs out         *)
(* ---------------------------------------------------------------------- *)

LOGIN_FALLBACK == "Login failed. Please check your credentials."

\* mutant: the backend's detail message is never shown
loginErrorMessage_Generic(err) == LOGIN_FALLBACK

\* Login.onSubmit, catch block: the message shown for the value login threw
loginErrorMessage(err) ==
    IF err.hasResponse /\ Truthy(err.detail) THEN err.detail ELSE LOGIN_FALLBACK

\* Login.onSubmit before the await
onSubmitStart(u) == [u EXCEPT !.login.isLoading = TRUE, !.login.error = Null]

\* Login.onSubmit after login returned: onLoginSuccess() is App's
\* handleLoginSuccess; finally
onSubmitResolved(u) ==
    [u EXCEPT !.app.isAuthenticated = TRUE, !.login.isLoading = FALSE]

\* mutant: a failed login opens the gate
onSubmitRejected_Authenticates(u, err) ==
    [u EXCEPT !.app.isAuthenticated = TRUE,
              !.login.error = loginErrorMessage(err), !.login.isLoading = FALSE]

\* Login.onSubmit after login threw err: catch, finally
onSubmitRejected(u, err) ==
    [u EXCEPT !.login.error = loginErrorMessage(err), !.login.isLoading = FALSE]

\* what App renders
LoginShown == ~ui.app.isLoading /\ ~ui.app.isAuthenticated
ChatShown == ~ui.app.isLoading /\ ui.app.isAuthenticated

\* App's mount effect: checkAuth
AppMounted ==
    /\ ui.app.isLoading
    /\ LET r == isAuthenticated(store, throws)
       IN  /\ ~r.threw
           /\ ui' = [ui EXCEPT !.app.isAuthenticated = (r.ret = Bool(TRUE)),
                               !.app.isLoading = FALSE]
    /\ UNCHANGED <<state, flow, req, store, throws, last, dispatched>>

\* the user submits the login form; the button is disabled while isLoading
SubmitLogin(f) ==
    /\ LoginShown /\ ~ui.login.isLoading
    /\ Login(f)
    /\ ui' = onSubmitStart(ui)

SubmitResolved(f) ==
    /\ LoginResolved(f)
    /\ ui' = onSubmitResolved(ui)

SubmitRejected(f) ==
    /\ LoginRejected(f)
    /\ ui' = onSubmitRejected(ui, flow'[f].calls[Len(flow'[f].calls)].data)

\* handleLogout's setIsAuthenticated(false)
onLogout(u) == [u EXCEPT !.app.isAuthenticated = FALSE]

\* the user clicks Sign Out in the Header: App's handleLogout, after which
\* the components hold u
HandleLogoutTo(u) ==
    /\ ChatShown
    /\ LET r == logout(store, throws)
       IN  /\ ~r.threw
           /\ store' = r.store
           /\ last' = Recorded("logout", r)
    /\ ui' = u
    /\ UNCHANGED <<state, flow, req, throws, dispatched>>

HandleLogout == HandleLogoutTo(onLogout(ui))

AppNext ==
    \/ AppMounted
    \/ SubmitLogin(1)
    \/ CsrfResolved(1) /\ UNCHANGED ui
    \/ CsrfRejected(1) /\ UNCHANGED ui
    \/ SubmitResolved(1)
    \/ SubmitRejected(1)
    \/ RespondRetry(1)
    \/ RetryTimer(1)
    \/ HandleLogout

SpecApp == Init /\ [][AppNext]_vars

\* the page is loaded by a new user or by one whose token of an earlier
\* visit is in localStorage, in a browser whose storage is in any condition
InitGate ==
    /\ state = initialChatState
    /\ flow = [f \in Flows |-> IdleFlow]
    /\ req = [f \in Flows |-> NoRequest]
    /\ store \in {EmptyStore} \cup
                 {loginResolved(EmptyStore, data, {}).store : data \in LoginResponses}
    /\ throws \in SUBSET StorageOps
    /\ last = NoCall
    /\ ui = initialUi
    /\ dispatched = <<>>

SpecGate == InitGate /\ [][AppNext]_vars

(* ---------------------------------------------------------------------- *)
(* The ConversationStore alone: a caller dispatches actions to the reducer *)
(* in any order                                                            *)
(* ---------------------------------------------------------------------- *)

\* number of actions dispatched in one behaviour
MaxDispatch == 4

\* payloads of the actions
ReducerMessages ==
    {[id |-> "m1", role |-> "user", content |-> "hello", status |-> "sent"],
     [id |-> "m2", role |-> "assistant", content |-> "hi", status |-> "sent",
      sources |-> <<>>]}
ReducerErrors == {Null, "Failed to send message"}
ReducerSessionIds == {"", UUID(1)}

\* dispatch(action): useReducer applies chatReducer to the current state
Reduce(action) ==
    /\ Len(dispatched) < MaxDispatch
    /\ state' = chatReducer(state, action)
    /\ dispatched' = Append(dispatched, action)
    /\ UNCHANGED <<flow, req, store, throws, last, ui>>

DispatchAddMessage ==
    \E m \in ReducerMessages : Reduce([type |-> "ADD_MESSAGE", payload |-> m])
DispatchSetLoading ==
    \E b \in BOOLEAN : Reduce([type |-> "SET_LOADING", payload |-> b])
DispatchSetError ==
    \E e \in ReducerErrors : Reduce([type |-> "SET_ERROR", payload |-> e])
DispatchClearError == Reduce([type |-> "CLEAR_ERROR"])
DispatchClearMessages == Reduce([type |-> "CLEAR_MESSAGES"])
DispatchSetSessionId ==
    \E id \in ReducerSessionIds : Reduce([type |-> "SET_SESSION_ID", payload |-> id])
\* an action whose type the reducer does not know
DispatchUnknown == Reduce([type |-> "UNKNOWN"])

ReducerNext ==
    \/ DispatchAddMessage
    \/ DispatchSetLoading
    \/ DispatchSetError
    \/ DispatchClearError
    \/ DispatchClearMessages
    \/ DispatchSetSessionId
    \/ DispatchUnknown

SpecReducer == Init /\ [][ReducerNext]_vars

(* ---------------------------------------------------------------------- *)
(* chatService.sendMessage alone: one query, answered with any retrieved   *)
(* chunks                                                                  *)
(* ---------------------------------------------------------------------- *)

\* number of chunks a response carries at most
MaxChunks == 2

MetadataKeys == {"title", "filename", "url", "source"}

MetadataValue(key) ==
    CASE key = "title" -> "Return Policy Guide"
      [] key = "filename" -> "FAQ.pdf"
      [] key = "url" -> "https://example.com/returns"
      [] key = "source" -> "https://example.com/faq"

\* retrieved chunks: any of the metadata keys may be missing
Chunks ==
    {[chunk_id |-> id, asset_id |-> 100 + id, similarity_score |-> 97 - 8 * id,
      metadata |-> [k \in keys |-> MetadataValue(k)]] :
        id \in {1, 2}, keys \in SUBSET MetadataKeys}

ChunkLists == UNION {[1..n -> Chunks] : n \in 0..MaxChunks}

QueryResponses ==
    {[response |-> "Our return policy allows returns within 30 days.",
      retrieved_chunks |-> chunks] : chunks \in ChunkLists}

\* the query is answered: apiClient.post resolves inside sendMessage
QueryAnswered(f) ==
    /\ flow[f].kind = "send" /\ flow[f].pc = "await"
    /\ req[f].status = "inflight"
    /\ \E data \in QueryResponses : req' = [req EXCEPT ![f] = onFulfilled(req[f], data)]
    /\ UNCHANGED <<state, flow, store, throws, last, ui, dispatched>>

\* sendMessage maps the response and returns; the handler's try and finally
\* blocks run
SendMessageReturned(f) ==
    /\ flow[f].kind = "send" /\ flow[f].pc = "await"
    /\ req[f].status = "resolved"
    /\ state' = sendResolved(state, f, req[f].data)
    /\ flow' = [flow EXCEPT ![f].pc = "done", ![f].result = "succeeded",
                            ![f].calls = Settled(f, "resolved")]
    /\ UNCHANGED <<req, store, throws, last, ui, dispatched>>

MappingNext ==
    \/ HandleSendMessage(1)
    \/ QueryAnswered(1)
    \/ SendMessageReturned(1)

SpecMapping == Init /\ [][MappingNext]_vars

(* ---------------------------------------------------------------------- *)
(* The chat screen: flows are started through InputField only              *)
(* ---------------------------------------------------------------------- *)

\* what the user may have typed when the form is submitted
Typed == Contents \cup {"", "   "}

\* String.prototype.trim on the texts of Typed
trim(text) == IF text \in {"", "   "} THEN "" ELSE text

\* react-hook-form, register('message', { required: true })
isValid(text) == text # ""

\* InputField.onSubmit: data.message.trim() && !isLoading
canSend(message, isLoading) == trim(message) # "" /\ ~isLoading

\* mutant: the controls stay enabled while loading
controlsDisabled_Never(isLoading) == FALSE

\* disabled={isLoading} on the upload button and the text input; the submit
\* button is disabled also while the form is not valid
controlsDisabled(isLoading) == isLoading

\* the form is submitted (Enter or the send button): onSubmit
SubmitMessage ==
    /\ ChatShown /\ ~ui.input.picker
    /\ ~controlsDisabled(state.isLoading)
    /\ \E text \in Typed :
          /\ isValid(text)
          /\ IF canSend(text, state.isLoading)
             THEN \E f \in Flows : onSendMessage(f, text)
             ELSE UNCHANGED vars

\* the upload button is clicked: triggerFileUpload opens the file picker,
\* which keeps the page from the user until it is closed
OpenPicker ==
    /\ ChatShown /\ ~ui.input.picker
    /\ ~controlsDisabled(state.isLoading)
    /\ ui' = [ui EXCEPT !.input.picker = TRUE]
    /\ UNCHANGED <<state, flow, req, store, throws, last, dispatched>>

\* a file is chosen in the picker: handleFileChange calls onUploadFile
PickFile ==
    /\ ui.input.picker
    /\ \E f \in Flows, name \in FileNames : onUploadFile(f, name)
    /\ ui' = [ui EXCEPT !.input.picker = FALSE]

\* the picker is closed without a file: no change event
ClosePicker ==
    /\ ui.input.picker
    /\ ui' = [ui EXCEPT !.input.picker = FALSE]
    /\ UNCHANGED <<state, flow, req, store, throws, last, dispatched>>

\* the user closes the alert
CloseAlert == ChatShown /\ ~ui.input.picker /\ DismissError

\* the attempt in flight of invocation f is answered, one way or the other
Answered(f) ==
    \/ SendMessageResolved(f)
    \/ SendMessageRejected(f)
    \/ UploadResolved(f)
    \/ ProcessResolved(f)
    \/ UploadRejected(f)
    \/ RetryObserved(f)

\* the user is signed in and App shows the chat
InitUi ==
    /\ state = initialChatState
    /\ flow = [f \in Flows |-> IdleFlow]
    /\ req = [f \in Flows |-> NoRequest]
    /\ \E data \in LoginResponses : store = loginResolved(EmptyStore, data, {}).store
    /\ throws = {}
    /\ last = NoCall
    /\ ui = [initialUi EXCEPT !.app = [isAuthenticated |-> TRUE, isLoading |-> FALSE]]
    /\ dispatched = <<>>

UiNext ==
    \/ SubmitMessage
    \/ OpenPicker
    \/ PickFile
    \/ ClosePicker
    \/ CloseAlert
    \/ \E f \in Flows : Answered(f)
    \/ \E f \in Flows : RetryTimer(f)

SpecUi == InitUi /\ [][UiNext]_vars

\* every attempt is answered in the end and every retry delay elapses
SpecUiFair ==
    /\ SpecUi
    /\ \A f \in Flows : WF_vars(Answered(f)) /\ WF_vars(RetryTimer(f))

(* ---------------------------------------------------------------------- *)
(* ChatProvider over useSession: the hook's callbacks are called in any    *)
(* order, under any storage condition, and the sync effect follows         *)
(* ---------------------------------------------------------------------- *)

\* setSessionId(id) of the hook: a new value commits a render, after which
\* the effects whose dependencies changed are pending
setHookSessionId(h, id, op) ==
    [sessionId |-> id, effect |-> h.effect \/ id # h.sessionId, op |-> op]

\* clearSession's setSessionId('')
clearSession(h) == setHookSessionId(h, "", "clearSession")

\* the body of the sync effect
syncSessionId(s, sessionId) ==
    IF Truthy(sessionId) /\ sessionId # s.sessionId
    THEN chatReducer(s, [type |-> "SET_SESSION_ID", payload |-> sessionId])
    ELSE s

\* refreshSession(); a handler runs once the effects of the last render ran
RefreshSession ==
    LET newId == regenerateSessionId(store, throws)
    IN  /\ ~ui.hook.effect
        /\ newId.store.uuids <= MaxUuids
        /\ store' = newId.store
        /\ ui' = [ui EXCEPT !.hook = setHookSessionId(@, newId.ret, "refreshSession")]
        /\ UNCHANGED <<state, flow, req, throws, last, dispatched>>

\* clearSession()
ClearSession ==
    /\ ~ui.hook.effect
    /\ store' = clearSessionId(store, throws).store
    /\ ui' = [ui EXCEPT !.hook = clearSession(@)]
    /\ UNCHANGED <<state, flow, req, throws, last, dispatched>>

\* the sync effect runs; a dispatch that changes state.sessionId commits a
\* render after which the effect is pending again
SyncEffect ==
    /\ ui.hook.effect
    /\ state' = syncSessionId(state, ui.hook.sessionId)
    /\ ui' = [ui EXCEPT !.hook.effect = state'.sessionId # state.sessionId]
    /\ UNCHANGED <<flow, req, store, throws, last, dispatched>>

\* ChatProvider is mounted in a tab whose storage is in any condition: the
\* hook's initial value is getSessionId(), the reducer starts from it, and
\* the effect of the first render is pending
InitSession ==
    \E t \in SUBSET StorageOps :
        LET sessionId == getSessionId(EmptyStore, t)
        IN  /\ state = [initialChatState EXCEPT !.sessionId = sessionId.ret]
            /\ flow = [f \in Flows |-> IdleFlow]
            /\ req = [f \in Flows |-> NoRequest]
            /\ store = sessionId.store
            /\ throws = t
            /\ last = NoCall
            /\ ui = [initialUi EXCEPT
                        !.hook = [sessionId |-> sessionId.ret, effect |-> TRUE,
                                  op |-> "none"]]
            /\ dispatched = <<>>

SessionNext ==
    \/ RefreshSession
    \/ ClearSession
    \/ SyncEffect

SpecSession == InitSession /\ [][SessionNext]_vars

(* ---------------------------------------------------------------------- *)
(* The Footer: the user opens the confirmation modal, confirms or closes   *)
(* it, and the deletion request goes through the gateway                   *)
(* ---------------------------------------------------------------------- *)

\* mutant: the modal's buttons and keys stay live while a deletion runs
modalDisabled_Never(isLoading) == FALSE

\* ConfirmationModal: disabled={isLoading} on its three buttons, !isLoading
\* in handleKeyDown and handleBackdropClick
modalDisabled(isLoading) == isLoading

\* a Footer as it is mounted: useSession's initial value, nothing shown
mountFooter(sessionId) == [initialUi.footer EXCEPT !.sessionId = sessionId]

\* handleDelete up to its await, as invocation f
deleteStart(u, f) == [u EXCEPT !.isDeleting = TRUE, !.own = @ \cup {f}]

\* handleDelete of invocation f: try block after the await, then finally;
\* the state updates of a Footer that is no longer mounted are dropped
deleteResolved(u, f) ==
    IF f \notin u.own THEN u
    ELSE [u EXCEPT !.deleteStatus = "success", !.showDeleteModal = FALSE,
                   !.isDeleting = FALSE, !.own = @ \ {f}]

\* mutant: a failed deletion leaves the modal open
deleteRejected_KeepsModal(u, f) ==
    IF f \notin u.own THEN u
    ELSE [u EXCEPT !.deleteStatus = "error", !.isDeleting = FALSE,
                   !.own = @ \ {f}]

\* handleDelete of invocation f: catch block, then finally
deleteRejected(u, f) ==
    IF f \notin u.own THEN u
    ELSE [u EXCEPT !.deleteStatus = "error", !.showDeleteModal = FALSE,
                   !.isDeleting = FALSE, !.own = @ \ {f}]

\* handleDelete returned at once, as invocation f: no call was made
Skipped(f) ==
    [flow EXCEPT ![f] = [IdleFlow EXCEPT !.kind = "delete", !.pc = "done",
                                         !.result = "skipped"]]

\* the "Delete my data" button
OpenDeleteModal ==
    /\ ui' = [ui EXCEPT !.footer.showDeleteModal = TRUE]
    /\ UNCHANGED <<state, flow, req, store, throws, last, dispatched>>

\* onClose of the modal: Escape, a click on the backdrop, Cancel, the X
CloseDeleteModal ==
    /\ ui.footer.showDeleteModal
    /\ ~modalDisabled(ui.footer.isDeleting)
    /\ ui' = [ui EXCEPT !.footer.showDeleteModal = FALSE]
    /\ UNCHANGED <<state, flow, req, store, throws, last, dispatched>>

\* onConfirm of the modal: handleDelete up to its await, as invocation f
\* (the record of an invocation that has ended is written over)
ConfirmDelete(f) ==
    /\ ui.footer.showDeleteModal
    /\ ~modalDisabled(ui.footer.isDeleting)
    /\ ~InProgress(f)
    /\ \A g \in Flows : g < f => InProgress(g)
    /\ IF ~Truthy(ui.footer.sessionId)
       THEN /\ flow' = Skipped(f)
            /\ UNCHANGED <<req, store, ui>>
       ELSE /\ ui' = [ui EXCEPT !.footer = deleteStart(@, f)]
            /\ flow' = Started(f, "delete", ui.footer.sessionId, GdprUrl)
            /\ Dispatch(f, apiClientPost(GdprUrl,
                                         [session_id |-> ui.footer.sessionId]),
                        store)
    /\ UNCHANGED <<state, throws, last, dispatched>>

\* the deletion is answered
DeleteResolved(f) ==
    /\ flow[f].kind = "delete" /\ flow[f].pc = "await"
    /\ req[f].status = "inflight"
    /\ \E data \in ResponsesFor(req[f].url) :
          onFulfilled(req[f], data).status = "resolved"
    /\ ui' = [ui EXCEPT !.footer = deleteResolved(@, f)]
    /\ flow' = [flow EXCEPT ![f].pc = "done", ![f].result = "succeeded",
                            ![f].calls = Settled(f, "resolved")]
    /\ req' = [req EXCEPT ![f] = NoRequest]
    /\ UNCHANGED <<state, store, throws, last, dispatched>>

\* the deletion fails and the interceptor surfaces the failure
DeleteRejected(f) ==
    /\ flow[f].kind = "delete" /\ flow[f].pc = "await"
    /\ req[f].status = "inflight"
    /\ \E error \in AxiosErrors : onRejected(req[f], error).status = "rejected"
    /\ ui' = [ui EXCEPT !.footer = deleteRejected(@, f)]
    /\ flow' = [flow EXCEPT ![f].pc = "done", ![f].result = "failed",
                            ![f].calls = Settled(f, "rejected")]
    /\ req' = [req EXCEPT ![f] = NoRequest]
    /\ UNCHANGED <<state, store, throws, last, dispatched>>

\* AlertBox onClose={() => setDeleteStatus(null)}
DismissDeleteStatus ==
    /\ ui.footer.deleteStatus # Null
    /\ ui' = [ui EXCEPT !.footer.deleteStatus = Null]
    /\ UNCHANGED <<state, flow, req, store, throws, last, dispatched>>

\* the Footer is mounted in a tab whose storage is in any condition: its
\* useSession holds what getSessionId() returned, or the empty string (the
\* value the hook holds after clearSession)
InitFooter ==
    \E t \in SUBSET StorageOps :
        LET sessionId == getSessionId(EmptyStore, t)
        IN  /\ state = initialChatState
            /\ flow = [f \in Flows |-> IdleFlow]
            /\ req = [f \in Flows |-> NoRequest]
            /\ store = sessionId.store
            /\ throws = t
            /\ last = NoCall
            /\ \E id \in {sessionId.ret, ""} :
                   ui = [initialUi EXCEPT !.footer = mountFooter(id)]
            /\ dispatched = <<>>

FooterNext ==
    \/ OpenDeleteModal
    \/ CloseDeleteModal
    \/ \E f \in Flows : ConfirmDelete(f)
    \/ \E f \in Flows : DeleteResolved(f)
    \/ \E f \in Flows : DeleteRejected(f)
    \/ \E f \in Flows : RespondRetry(f)
    \/ \E f \in Flows : RetryTimer(f)
    \/ DismissDeleteStatus

SpecFooter == InitFooter /\ [][FooterNext]_vars

(* ---------------------------------------------------------------------- *)
(* The App gate with the Footer: the login screen and the chat screen are  *)
(* different trees (a div, a ChatProvider), so App mounts a new Footer     *)
(* whenever it switches from one to the other. Every attempt is answered   *)
(* or fails with a response; the retries are in the specifications above   *)
(* ---------------------------------------------------------------------- *)

\* the Footer of the screen App has switched to, mounted over store c: the
\* tab's identifier is in sessionStorage since the first Footer was
\* mounted, so useSession's getSessionId() reads it and writes nothing
remountFooter(u, c, t) ==
    [u EXCEPT !.footer = mountFooter(getSessionId(c, t).ret)]

\* App's mount effect, and the first Footer mounted with the screen
AppMountedWithFooter ==
    /\ ui.app.isLoading
    /\ LET r == isAuthenticated(store, throws)
           sessionId == getSessionId(store, throws)
       IN  /\ ~r.threw
           /\ store' = sessionId.store
           /\ ui' = [ui EXCEPT !.app.isAuthenticated = (r.ret = Bool(TRUE)),
                               !.app.isLoading = FALSE,
                               !.footer = mountFooter(sessionId.ret)]
    /\ UNCHANGED <<state, flow, req, throws, last, dispatched>>

\* the login succeeded: App shows the chat screen
SubmitResolvedToChat(f) ==
    /\ LoginResolved(f)
    /\ ui' = remountFooter(onSubmitResolved(ui), store', throws)

\* Sign Out: App shows the login screen
HandleLogoutToLogin ==
    HandleLogoutTo(remountFooter(onLogout(ui), store, throws))

\* on either screen: the Footer's controls are live
FooterShown == ~ui.app.isLoading

AppFooterNext ==
    \/ AppMountedWithFooter
    \/ SubmitLogin(1)
    \/ CsrfResolved(1) /\ UNCHANGED ui
    \/ CsrfRejected(1) /\ UNCHANGED ui
    \/ SubmitResolvedToChat(1)
    \/ SubmitRejected(1)
    \/ HandleLogoutToLogin
    \/ FooterShown /\ OpenDeleteModal
    \/ FooterShown /\ CloseDeleteModal
    \/ \E f \in Flows : FooterShown /\ ConfirmDelete(f)
    \/ \E f \in Flows : DeleteResolved(f)
    \/ \E f \in Flows : DeleteRejected(f)
    \/ FooterShown /\ DismissDeleteStatus

SpecAppFooter == Init /\ [][AppFooterNext]_vars

(* ---------------------------------------------------------------------- *)
(* Properties of the RequestGateway                                        *)
(* ---------------------------------------------------------------------- *)

IsClientError(e) == e.hasResponse /\ e.status >= 400 /\ e.status < 500
IsServerError(e) == e.hasResponse /\ e.status >= 500

\* C1: no request is ever dispatched more than MAX_RETRIES + 1 = 3 times, and
\* a request on which a network error is surfaced to the caller has used up
\* its MAX_RETRIES retries: it was dispatched exactly 3 times; while a network
\* error is waiting for its retry, the dispatches so far are fewer than 3.
C1_NetworkErrorThreeDispatches ==
    \A f \in Flows :
        /\ req[f].dispatches <= MAX_RETRIES + 1
        /\ req[f].error = NetworkFailure /\ req[f].status = "rejected"
              => req[f].retryCount = MAX_RETRIES
                 /\ req[f].dispatches = MAX_RETRIES + 1
        /\ req[f].error = NetworkFailure /\ req[f].status = "delay"
              => req[f].dispatches = req[f].retryCount
                 /\ req[f].dispatches <= MAX_RETRIES

C1_Witness ==
    \E f \in Flows :
        /\ req[f].status = "rejected" /\ req[f].error = NetworkFailure
        /\ req[f].dispatches = 3

\* C2: a 4xx failure is never scheduled for a retry: the request is rejected
\* at once, with no dispatch beyond those already made (one dispatch when it
\* is the first answer).
C2_ClientErrorNeverRetried ==
    \A f \in Flows :
        IsClientError(req[f].error)
            => /\ req[f].status = "rejected"
               /\ req[f].dispatches = req[f].retryCount + 1

C2_Witness ==
    \E f \in Flows :
        /\ req[f].status = "rejected" /\ req[f].error = HttpFailure(404)
        /\ req[f].dispatches = 1

\* C3 as claimed: a 5xx failure reaches the caller only once the retry budget
\* is used up.
C3_ServerErrorRetried ==
    \A f \in Flows :
        req[f].status = "rejected" /\ IsServerError(req[f].error)
            => req[f].retryCount = MAX_RETRIES

\* C3 amended: a 5xx failure is never scheduled for a retry: it is surfaced
\* (and logged once) right after the attempt that received it.
C3_ServerErrorNotRetried ==
    \A f \in Flows :
        IsServerError(req[f].error)
            => /\ req[f].status = "rejected"
               /\ req[f].dispatches = req[f].retryCount + 1
               /\ req[f].logs = 1

C3_Witness ==
    \E f \in Flows :
        /\ req[f].status = "rejected" /\ req[f].error = HttpFailure(500)
        /\ req[f].dispatches = 1 /\ req[f].retryCount = 0

(* ---------------------------------------------------------------------- *)
(* Properties of the ConversationOrchestrator                              *)
(* ---------------------------------------------------------------------- *)

\* the messages invocation f has written, in log order
MessagesOf(f, messages) == SelectSeq(messages, LAMBDA m : m.id[1] = f)

\* role and text of each message
Shown(messages) ==
    [i \in DOMAIN messages |-> <<messages[i].role, messages[i].content>>]

Finishes(f) == InProgress(f) /\ ~InProgress(f)'
Starts(f) == ~InProgress(f) /\ InProgress(f)'

\* C4: from the moment a send-text flow has issued its query request, and
\* for ever after (request retried, answered, failed), the log holds the
\* user's message exactly once, first among the flow's messages, with role
\* user, the text sent and status sent.
C4_UserMessageStays ==
    \A f \in Flows :
        flow[f].kind = "send"
            => LET mine == MessagesOf(f, state.messages)
               IN  /\ Len(mine) >= 1
                   /\ mine[1].role = "user"
                   /\ mine[1].content = flow[f].arg
                   /\ mine[1].status = "sent"
                   /\ \A i \in 2..Len(mine) : mine[i].role # "user"

C4_Witness ==
    \E f \in Flows :
        /\ flow[f].kind = "send" /\ flow[f].result = "failed"
        /\ state.error # Null
        /\ \E i \in DOMAIN state.messages :
              /\ state.messages[i].role = "user"
              /\ state.messages[i].status = "sent"
              /\ state.messages[i].id[1] = f

\* C5: the step that ends a send-text flow leaves loading false and is one
\* of two: on success the log gains exactly one message, the flow's assistant
\* message, after its user message, and the error slot is not written; on
\* failure the log is unchanged and the error slot holds a message.  The
\* step that starts the flow does not write the error slot either.
C5_SendOutcomes ==
    [][\A f \in Flows :
          /\ Starts(f) /\ flow'[f].kind = "send" => state'.error = state.error
          /\ Finishes(f) /\ flow[f].kind = "send"
                => /\ ~state'.isLoading
                   /\ flow'[f].result \in {"succeeded", "failed"}
                   /\ flow'[f].result = "succeeded"
                         => /\ Len(state'.messages) = Len(state.messages) + 1
                            /\ SubSeq(state'.messages, 1, Len(state.messages))
                                  = state.messages
                            /\ \E r \in RagResponses :
                                  Shown(MessagesOf(f, state'.messages))
                                     = <<<<"user", flow[f].arg>>,
                                         <<"assistant", r.response>>>>
                            /\ state'.error = state.error
                   /\ flow'[f].result = "failed"
                         => /\ state'.messages = state.messages
                            /\ Shown(MessagesOf(f, state'.messages))
                                  = <<<<"user", flow[f].arg>>>>
                            /\ state'.error # Null
      ]_vars

C5_Witness ==
    \E f, g \in Flows :
        /\ flow[f].kind = "send" /\ flow[f].result = "succeeded"
        /\ flow[g].kind = "send" /\ flow[g].result = "failed"
        /\ ~state.isLoading

\* C6: the step that ends an upload-file flow for file F after both calls
\* succeeded leaves loading false and leaves, as that flow's messages,
\* exactly the three system messages "Uploading F...", "File uploaded.
\* Processing F...", "F processed and indexed successfully." in this order;
\* when no other flow ran meanwhile they are the last three entries of the
\* log and the error slot is null.
C6_UploadSuccess ==
    [][\A f \in Flows :
          Finishes(f) /\ flow[f].kind = "upload" /\ flow'[f].result = "succeeded"
            => LET F == flow[f].arg
                   three == <<<<"system", "Uploading " \o F \o "...">>,
                              <<"system", "File uploaded. Processing " \o F \o "...">>,
                              <<"system", F \o " processed and indexed successfully.">>>>
                   n == Len(state'.messages)
               IN  /\ ~state'.isLoading
                   /\ flow'[f].calls
                         = <<[url |-> UploadUrl, outcome |-> "resolved"],
                             [url |-> ProcessUrl, outcome |-> "resolved"]>>
                   /\ Shown(MessagesOf(f, state'.messages)) = three
                   /\ flow[f].solo
                         => /\ state'.error = Null
                            /\ n >= 3
                            /\ Shown(SubSeq(state'.messages, n - 2, n)) = three
      ]_vars

\* a flow failed and left its error; then an upload ran alone and succeeded
C6_Witness ==
    \E f, g \in Flows :
        /\ flow[f].kind = "upload" /\ flow[f].result = "succeeded" /\ flow[f].solo
        /\ flow[g].result = "failed" /\ g < f
        /\ state.error = Null /\ ~state.isLoading
        /\ Len(MessagesOf(f, state.messages)) = 3

\* C7: the step that ends an upload-file flow for file F whose upload call
\* succeeded and whose process call failed leaves loading false, the error
\* slot non-null and, as that flow's messages, "Uploading F...", "File
\* uploaded. Processing F...", "Failed to process F." in this order: the two
\* breadcrumbs stay, the success breadcrumb is absent.
C7_ProcessFailure ==
    [][\A f \in Flows :
          (/\ Finishes(f) /\ flow[f].kind = "upload"
           /\ flow'[f].calls = <<[url |-> UploadUrl, outcome |-> "resolved"],
                                 [url |-> ProcessUrl, outcome |-> "rejected"]>>)
            => LET F == flow[f].arg
                   mine == Shown(MessagesOf(f, state'.messages))
               IN  /\ flow'[f].result = "failed"
                   /\ ~state'.isLoading
                   /\ state'.error # Null
                   /\ mine = <<<<"system", "Uploading " \o F \o "...">>,
                               <<"system", "File uploaded. Processing " \o F \o "...">>,
                               <<"system", "Failed to process " \o F \o ".">>>>
                   /\ \A i \in DOMAIN mine :
                         mine[i][2] # F \o " processed and indexed successfully."
      ]_vars

C7_Witness ==
    \E f \in Flows :
        /\ flow[f].kind = "upload" /\ flow[f].result = "failed"
        /\ Len(flow[f].calls) = 2 /\ flow[f].calls[2].outcome = "rejected"
        /\ Len(MessagesOf(f, state.messages)) = 3
        /\ state.error # Null /\ ~state.isLoading

\* C8: the step in which the upload call of an upload-file flow for file F
\* is rejected ends the flow: the process endpoint is not called (the upload
\* stays the flow's only call and no request is left), the flow's messages
\* are "Uploading F..." and "Failed to process F.", the error slot is
\* non-null and loading is false; and a flow that has ended calls nothing
\* and writes no message any more.
C8_UploadFailureEndsFlow ==
    [][\A f \in Flows :
          /\ (/\ flow'[f].kind = "upload"
              /\ flow'[f].calls[1].outcome = "rejected"
              /\ flow[f].calls[1].outcome = "pending")
               => LET F == flow[f].arg
                  IN  /\ flow'[f].pc = "done" /\ flow'[f].result = "failed"
                      /\ flow'[f].calls
                            = <<[url |-> UploadUrl, outcome |-> "rejected"]>>
                      /\ req'[f].status = "none"
                      /\ Shown(MessagesOf(f, state'.messages))
                            = <<<<"system", "Uploading " \o F \o "...">>,
                                <<"system", "Failed to process " \o F \o ".">>>>
                      /\ state'.error # Null
                      /\ ~state'.isLoading
          /\ flow[f].pc = "done"
               => /\ flow'[f] = flow[f]
                  /\ req'[f] = req[f]
                  /\ req[f].status = "none"
                  /\ MessagesOf(f, state'.messages) = MessagesOf(f, state.messages)
      ]_vars

C8_Witness ==
    \E f \in Flows :
        /\ flow[f].kind = "upload" /\ flow[f].result = "failed"
        /\ flow[f].calls = <<[url |-> UploadUrl, outcome |-> "rejected"]>>
        /\ Len(MessagesOf(f, state.messages)) = 2
        /\ state.error # Null /\ ~state.isLoading

\* C9 as claimed: loading is true whenever some flow has started and not yet
\* finished.
C9_LoadingWhileAnyFlow == \A f \in Flows : InProgress(f) => state.isLoading

\* C9 amended: the loading flag holds the last write.  The step that starts a
\* flow sets it true, the step that ends a flow sets it false whatever other
\* flows are still in progress, and no other step changes it; so loading is
\* true throughout a flow that overlaps no other flow, and it is true only
\* while some flow is in progress.
C9_LoadingLastWrite ==
    [][/\ \A f \in Flows :
             /\ Starts(f) => state'.isLoading
             /\ Finishes(f) => ~state'.isLoading
             /\ InProgress(f)' /\ flow'[f].solo => state'.isLoading
       /\ (\A f \in Flows : ~Starts(f) /\ ~Finishes(f))
             => state'.isLoading = state.isLoading
       /\ state'.isLoading => \E f \in Flows : InProgress(f)'
      ]_vars

\* two flows overlapped, one has ended, the other is still in progress
C9_Witness ==
    \E f, g \in Flows :
        /\ InProgress(f) /\ flow[g].pc = "done" /\ ~flow[f].solo
        /\ ~state.isLoading

IsPrefix(a, b) == Len(a) <= Len(b) /\ SubSeq(b, 1, Len(a)) = a

\* what the log must hold of invocation f, given where f is
Expected(f) ==
    LET a == flow[f].arg
        U == <<"system", "Uploading " \o a \o "...">>
        P == <<"system", "File uploaded. Processing " \o a \o "...">>
        S == <<"system", a \o " processed and indexed successfully.">>
        X == <<"system", "Failed to process " \o a \o ".">>
    IN  CASE flow[f].kind = "none" -> {<<>>}
          [] flow[f].kind = "send" /\ flow[f].result # "succeeded" ->
                {<<<<"user", a>>>>}
          [] flow[f].kind = "send" /\ flow[f].result = "succeeded" ->
                {<<<<"user", a>>, <<"assistant", r.response>>>> : r \in RagResponses}
          [] flow[f].kind = "upload" /\ InProgress(f) /\ req[f].url = UploadUrl ->
                {<<U>>}
          [] flow[f].kind = "upload" /\ InProgress(f) /\ req[f].url = ProcessUrl ->
                {<<U, P>>}
          [] flow[f].kind = "upload" /\ flow[f].result = "succeeded" ->
                {<<U, P, S>>}
          [] flow[f].kind = "upload" /\ flow[f].result = "failed" ->
                {<<U, X>>, <<U, P, X>>}

\* C10: under every interleaving the log only grows at its end; every step
\* that touches a flow (its position, its request or its messages) leaves
\* the flow's messages, in log order, exactly the steps the flow has reached
\* (user, then assistant; "Uploading", then "File uploaded. Processing",
\* then the success or the failure breadcrumb), which the empty initial log
\* satisfies; and a suspended flow takes its next step (a message, the next
\* call, its end) only in the step that settles the request it awaits,
\* never while that request is waiting for a retry.
C10_FlowStepOrder ==
    [][/\ IsPrefix(state.messages, state'.messages)
       /\ \A f \in Flows :
             LET before == MessagesOf(f, state.messages)
                 after == MessagesOf(f, state'.messages)
             IN  /\ (after # before \/ flow'[f] # flow[f] \/ req'[f] # req[f])
                       => Shown(after) \in Expected(f)'
                 /\ (/\ InProgress(f)
                     /\ \/ after # before
                        \/ flow'[f].calls # flow[f].calls
                        \/ flow'[f].pc # flow[f].pc)
                       => /\ req[f].status = "inflight"
                          /\ flow'[f].calls[Len(flow[f].calls)].outcome # "pending"
                 /\ req[f].status = "delay"
                       => /\ InProgress(f)'
                          /\ req'[f].url = req[f].url
                          /\ req'[f].status = "inflight"
                                => req'[f].dispatches = req[f].dispatches + 1
      ]_vars

\* two flows interleaved in the log, both through all of their steps
C10_Witness ==
    \E f, g \in Flows :
        /\ flow[f].kind = "upload" /\ flow[f].result = "succeeded"
        /\ flow[g].kind = "send" /\ flow[g].result = "succeeded"
        /\ \E i, j, k \in DOMAIN state.messages :
              /\ i < j /\ j < k
              /\ state.messages[i].id[1] = f
              /\ state.messages[j].id[1] = g
              /\ state.messages[k].id[1] = f

(* ---------------------------------------------------------------------- *)
(* Properties of the identity headers and of the retry budget              *)
(* ---------------------------------------------------------------------- *)

\* this step sends an attempt of slot f's request: a first one or a retry
Dispatched(f) ==
    /\ req'[f].status = "inflight"
    /\ req[f].status # "inflight" \/ req'[f].url # req[f].url

\* the Authorization header that goes with a stored auth token
BearerOf(token) == IF Truthy(token) THEN "Bearer " \o token ELSE Null

\* C11: every attempt that goes out carries the session header; it carries
\* the bearer header if and only if an auth token is stored when it goes out,
\* and the anti-forgery header if and only if a CSRF token is stored then; no
\* dispatch ends in a failure of the request interceptor.
C11_IdentityHeaders ==
    [][\A f \in Flows :
          /\ Dispatched(f) =>
                /\ req'[f].headers["X-Session-ID"] # Null
                /\ req'[f].headers["Authorization"] # Null
                      <=> store'.local[TOKEN_KEY] # Null
                /\ req'[f].headers["X-CSRF-Token"] # Null
                      <=> store'.session[CSRF_TOKEN_KEY] # Null
          /\ req[f].status \in {"none", "resolved", "delay"}
                => req'[f].status # "rejected"]_vars

\* C12: on every attempt, first or retried, the bearer and the CSRF header
\* are those of the auth token and the CSRF token stored when the attempt
\* goes out, also when a credential was changed or removed during the retry
\* delay.
C12_HeadersRederived ==
    [][\A f \in Flows :
          Dispatched(f) =>
             /\ req'[f].headers["Authorization"] = BearerOf(store'.local[TOKEN_KEY])
             /\ req'[f].headers["X-CSRF-Token"] = store'.session[CSRF_TOKEN_KEY]]_vars

\* C13: the retry counter of a request stays within 0..MAX_RETRIES; it moves
\* only by a step of its own request (up by one when an attempt of that
\* request fails with a retryable error, back to 0 when the slot takes a new
\* request), and no step on one request changes another request; a network
\* error is surfaced on a request only when that request has used all of its
\* own MAX_RETRIES retries.
C13_RetryBudgetPerRequest ==
    [][\A f \in Flows :
          /\ req'[f].retryCount \in 0..MAX_RETRIES
          /\ req'[f] # req[f] => \A g \in Flows \ {f} : req'[g] = req[g]
          /\ req'[f].retryCount # req[f].retryCount =>
                \/ /\ req'[f].retryCount = req[f].retryCount + 1
                   /\ req[f].status = "inflight" /\ req'[f].status = "delay"
                   /\ getRetryableError(req'[f].error)
                \/ /\ req'[f].retryCount = 0
                   /\ req'[f].dispatches = 1
          /\ (req'[f].status = "rejected" /\ isNetworkError(req'[f].error))
                => req'[f].retryCount = MAX_RETRIES
                   /\ req'[f].dispatches = MAX_RETRIES + 1]_vars

\* every request in flight concurrently has failed with network errors only
\* and has had its own three dispatches
C13_Witness ==
    \A f \in Flows :
        /\ req[f].status = "rejected" /\ req[f].error = NetworkFailure
        /\ req[f].retryCount = MAX_RETRIES /\ req[f].dispatches = MAX_RETRIES + 1

(* ---------------------------------------------------------------------- *)
(* Properties of the CredentialStore                                       *)
(* ---------------------------------------------------------------------- *)

\* the session id held in tab-scoped storage when the latest call was made
IdBefore == last.before.session[SESSION_ID_KEY]

\* C14: regenerateSessionId returns a value different from the session id
\* that was current (stored) right before the call, in every storage
\* condition.
C14_RegenerateDiffers ==
    (last.op = "regenerateSessionId" /\ IdBefore # Null) => last.ret # IdBefore

\* C15: with working storage getSessionId returns the stored id when there is
\* one, otherwise an id drawn by this call; in both cases the returned id is
\* the stored one after the call, and it is the id the previous call returned
\* when no clearSessionId or regenerateSessionId came in between.
C15_GetSessionIdStored ==
    (throws = {} /\ last.op = "getSessionId") =>
        /\ ~last.threw
        /\ IdBefore # Null => last.ret = IdBefore /\ store = last.before
        /\ IdBefore = Null =>
              /\ last.ret = UUID(store.uuids)
              /\ store.uuids = last.before.uuids + 1
        /\ store.session[SESSION_ID_KEY] = last.ret
        /\ last.prev # Null => last.ret = last.prev

\* a second getSessionId call in a row returned the stored id
C15_Witness ==
    /\ throws = {} /\ last.op = "getSessionId"
    /\ last.prev # Null /\ last.ret = last.prev /\ IdBefore = last.ret

\* C16: between two resets every getSessionId call returns the same value,
\* in every storage condition.
C16_SessionIdStable ==
    (last.op = "getSessionId" /\ last.prev # Null) => last.ret = last.prev

CredentialStoreReads == {"getAuthToken", "getUserId", "getCsrfToken"}
CredentialStoreWrites == {"setAuthToken", "setUserId", "setCsrfToken"}
CredentialStoreRemoves ==
    {"removeAuthToken", "removeUserId", "removeCsrfToken", "clearSessionId", "clearAuth"}
CredentialStoreOps ==
    CredentialStoreReads \cup CredentialStoreWrites \cup CredentialStoreRemoves
        \cup {"getSessionId", "regenerateSessionId"}

\* C17: no CredentialStore operation throws to its caller; when the read
\* operation of the storage throws, a read returns null and getSessionId
\* returns an id drawn by the call; when the write (remove) operation throws,
\* a write (remove) leaves the store as it was.
C17_StoreNeverThrows ==
    last.op \in CredentialStoreOps =>
        /\ ~last.threw
        /\ ("getItem" \in throws /\ last.op \in CredentialStoreReads)
              => last.ret = Null
        /\ ("getItem" \in throws /\ last.op = "getSessionId")
              => last.ret = UUID(store.uuids) /\ store.uuids > last.before.uuids
        /\ ("setItem" \in throws /\ last.op \in CredentialStoreWrites)
              => store = last.before
        /\ ("removeItem" \in throws /\ last.op \in CredentialStoreRemoves)
              => store = last.before

\* a stored auth token is read while the read operation throws
C17_Witness ==
    /\ "getItem" \in throws /\ store.local[TOKEN_KEY] # Null
    /\ last.op = "getAuthToken" /\ ~last.threw /\ last.ret = Null

\* C18: isAuthenticated and logout never throw to their caller; when the
\* durable storage throws, isAuthenticated returns false.
C18_AuthSessionNeverThrows ==
    last.op \in {"isAuthenticated", "logout"} =>
        /\ ~last.threw
        /\ ("getItem" \in throws /\ last.op = "isAuthenticated")
              => last.ret = Bool(FALSE)

(* ---------------------------------------------------------------------- *)
(* Properties of the AuthSession                                           *)
(* ---------------------------------------------------------------------- *)

\* C19: a call of isAuthenticated returns true exactly when an auth token is
\* in durable storage at the call, which is when getAuthToken returns one,
\* whatever logins, logouts, setAuthToken and removeAuthToken came before; the
\* call sends no request and leaves the storage, the flows and the
\* conversation as they were.
C19_IsAuthenticatedLocal ==
    [][(last'.op = "isAuthenticated" /\ last' # last) =>
          /\ ~last'.threw
          /\ last'.ret = Bool(store.local[TOKEN_KEY] # Null)
          /\ last'.ret = Bool(getAuthToken(store, throws).ret # Null)
          /\ UNCHANGED <<store, req, flow, state>>]_vars

\* isAuthenticated answered true on a token that a login stored
C19_Witness ==
    /\ last.op = "isAuthenticated" /\ last.ret = Bool(TRUE)
    /\ flow[1].kind = "login" /\ flow[1].result = "succeeded"
    /\ store.local[TOKEN_KEY] = flow[1].calls[2].data.access_token

\* C20: login calls the CSRF endpoint first and the login endpoint only in
\* the step in which the CSRF fetch settles, resolved or rejected; when the
\* fetch fails the login call still goes out and the stored CSRF token is
\* left as it was; when the fetch yields a token, the token is stored and the
\* login call sent in that step carries it; in the step in which login
\* succeeds the returned auth token and user id are in the storage.
C20_LoginSequence ==
    [][\A f \in Flows :
          flow'[f].kind = "login" =>
             LET calls == flow'[f].calls
                 n == Len(calls)
             IN  /\ n \in {1, 2}
                 /\ calls[1].url = CsrfUrl
                 /\ (n = 1) =>
                       /\ calls[1].outcome = "pending"
                       /\ flow'[f].pc = "await" /\ req'[f].url = CsrfUrl
                 /\ (n = 2) =>
                       /\ calls[1].outcome \in {"resolved", "rejected"}
                       /\ calls[2].url = LoginUrl
                 /\ (flow[f].kind = "login" /\ Len(flow[f].calls) = 1 /\ n = 2) =>
                       /\ req'[f].url = LoginUrl /\ req'[f].status = "inflight"
                       /\ req'[f].dispatches = 1
                       /\ (calls[1].outcome = "resolved"
                              /\ Truthy(calls[1].data.csrf_token)) =>
                             /\ store'.session[CSRF_TOKEN_KEY] = calls[1].data.csrf_token
                             /\ req'[f].headers["X-CSRF-Token"] = calls[1].data.csrf_token
                       /\ (calls[1].outcome = "rejected") =>
                             store'.session[CSRF_TOKEN_KEY] = store.session[CSRF_TOKEN_KEY]
                 /\ (flow[f].pc = "await" /\ flow'[f].pc = "done"
                        /\ flow'[f].result = "succeeded") =>
                       /\ n = 2 /\ calls[2].outcome = "resolved"
                       /\ store'.local[TOKEN_KEY] = calls[2].data.access_token
                       /\ store'.local[USER_ID_KEY] = ToString(calls[2].data.user_id)]_vars

\* a login whose CSRF fetch yielded a token has succeeded
C20_Witness ==
    \E f \in Flows :
        /\ flow[f].kind = "login" /\ flow[f].result = "succeeded"
        /\ flow[f].calls[1].outcome = "resolved"
        /\ Truthy(flow[f].calls[1].data.csrf_token)
        /\ store.session[CSRF_TOKEN_KEY] = flow[f].calls[1].data.csrf_token

\* C21: in the step in which a login fails, the storage is left as it was
\* (neither the auth token nor the user id is stored, isAuthenticated() is
\* unchanged), the Login screen shows the detail message of the error payload
\* when it has one and the generic fallback message otherwise, and the chat
\* interface is not shown.
C21_LoginRejected ==
    [][\A f \in Flows :
          (flow[f].kind = "login" /\ flow[f].pc = "await"
              /\ flow'[f].pc = "done" /\ flow'[f].result = "failed") =>
             LET err == flow'[f].calls[Len(flow'[f].calls)].data
             IN  /\ store' = store
                 /\ isAuthenticated(store', throws).ret = isAuthenticated(store, throws).ret
                 /\ ui'.login.error =
                       IF Truthy(err.detail) THEN err.detail ELSE LOGIN_FALLBACK
                 /\ ~ui'.login.isLoading
                 /\ ~ui'.app.isAuthenticated]_vars

\* the backend has rejected the credentials with a detail message, which the
\* Login screen shows
C21_Witness ==
    \E f \in Flows :
        /\ flow[f].kind = "login" /\ flow[f].result = "failed"
        /\ flow[f].calls[2].data = HttpFailure(401)
        /\ ui.login.error = StatusDetail(401)
        /\ LoginShown
        /\ store.local[TOKEN_KEY] = Null /\ store.local[USER_ID_KEY] = Null

\* C22: a logout() call leaves the auth token and the user id absent and
\* changes nothing else: the session id, the CSRF token and the count of
\* identifiers drawn are as before, and no request is issued, changed or
\* answered (with working storage).
C22_LogoutFrame ==
    [][(last'.op = "logout" /\ last' # last) =>
          /\ store'.local[TOKEN_KEY] = Null
          /\ store'.local[USER_ID_KEY] = Null
          /\ store'.session = store.session
          /\ store'.uuids = store.uuids
          /\ req' = req
          /\ UNCHANGED <<state, flow, throws, ui, dispatched>>]_vars

\* logout() has removed a stored token and user id while a request was in
\* flight; the CSRF token is still stored
C22_Witness ==
    /\ last.op = "logout"
    /\ last.before.local[TOKEN_KEY] # Null /\ last.before.local[USER_ID_KEY] # Null
    /\ store.local[TOKEN_KEY] = Null /\ store.local[USER_ID_KEY] = Null
    /\ store.session[CSRF_TOKEN_KEY] # Null
    /\ store.session = last.before.session
    /\ \E f \in Flows : req[f].status = "inflight"

\* C23: logout() never raises, and a logout() called right after a logout()
\* leaves the store as the first call left it, under every storage condition.
C23_LogoutIdempotent ==
    /\ (last.op = "logout") => ~last.threw
    /\ (last.op = "logout" /\ last.again) => store = last.before
    /\ LET once == logout(store, throws)
           twice == logout(once.store, throws)
       IN  ~once.threw /\ ~twice.threw /\ twice.store = once.store

\* logout() was called twice in succession on a store holding a CSRF token
\* and a session id
C23_Witness ==
    /\ last.op = "logout" /\ last.again
    /\ store.session[CSRF_TOKEN_KEY] # Null
    /\ store.session[SESSION_ID_KEY] # Null

\* the actions dispatched since the log was last cleared
SinceClear(d) ==
    LET clears == {i \in DOMAIN d : d[i].type = "CLEAR_MESSAGES"}
        from == IF clears = {} THEN 0
                ELSE CHOOSE i \in clears : \A j \in clears : j <= i
    IN  SubSeq(d, from + 1, Len(d))

IsAppend(action) == action.type = "ADD_MESSAGE"

\* C24: the message log has exactly one entry per append-message action
\* dispatched (since the log was last cleared, if it ever was), and entry i
\* is the payload of the i-th of them: appends keep count and order, and
\* no later action changes, removes or reorders an earlier entry.
C24_AppendOrder ==
    LET appends == SelectSeq(SinceClear(dispatched), IsAppend)
    IN  /\ Len(state.messages) = Len(appends)
        /\ \A i \in DOMAIN appends : state.messages[i] = appends[i].payload

\* three appends of differing messages with another action in between, and
\* no clear
C24_Witness ==
    /\ Len(dispatched) = 4 /\ Len(state.messages) = 3
    /\ \A i \in DOMAIN dispatched : dispatched[i].type # "CLEAR_MESSAGES"
    /\ dispatched[1].type = "ADD_MESSAGE" /\ dispatched[2].type = "SET_ERROR"
    /\ state.messages[1] # state.messages[2]
    /\ state.messages[3] = state.messages[1]

\* r has the fields of s, with the values of s outside fields
SameExcept(r, s, fields) ==
    /\ DOMAIN r = DOMAIN s
    /\ \A k \in DOMAIN s \ fields : r[k] = s[k]

\* the transition table of the ConversationStore: r is s after action
TableEffect(s, r, action) ==
    CASE action.type = "ADD_MESSAGE" ->
            /\ r.messages = Append(s.messages, action.payload)
            /\ SameExcept(r, s, {"messages"})
      [] action.type = "SET_LOADING" ->
            /\ r.isLoading = action.payload
            /\ SameExcept(r, s, {"isLoading"})
      [] action.type = "SET_ERROR" ->
            /\ r.error = action.payload
            /\ r.isLoading = FALSE
            /\ SameExcept(r, s, {"error", "isLoading"})
      [] action.type = "CLEAR_ERROR" ->
            /\ r.error = Null
            /\ SameExcept(r, s, {"error"})
      [] action.type = "CLEAR_MESSAGES" ->
            /\ r.messages = <<>>
            /\ SameExcept(r, s, {"messages"})
      [] action.type = "SET_SESSION_ID" ->
            /\ r.sessionId = action.payload
            /\ SameExcept(r, s, {"sessionId"})
      [] OTHER -> r = s

\* C25: every dispatch changes the state as the transition table says for
\* the dispatched action: the named fields get the listed values (SET_ERROR
\* sets error to its payload, null included, and loading to false), every
\* other field keeps its value, and an unknown action changes nothing.
C25_TransitionTable ==
    [][(dispatched' # dispatched) =>
          TableEffect(state, state', dispatched'[Len(dispatched')])]_vars

\* SET_ERROR with payload null, dispatched while loading was true, has forced
\* loading to false; an unknown action before it changed nothing
C25_Witness ==
    /\ Len(dispatched) = 4
    /\ dispatched[1].type = "ADD_MESSAGE"
    /\ dispatched[2].type = "SET_LOADING" /\ dispatched[2].payload
    /\ dispatched[3].type = "UNKNOWN"
    /\ dispatched[4].type = "SET_ERROR" /\ dispatched[4].payload = Null
    /\ ~state.isLoading /\ state.error = Null /\ Len(state.messages) = 1

\* chunk.metadata carries a non-empty value under key
HasMetadata(chunk, key) ==
    key \in DOMAIN chunk.metadata /\ chunk.metadata[key] # ""

\* C26: when sendMessage has returned for a successful response, the message
\* appended last has role assistant, the response text as content and one
\* citation per retrieved chunk, in chunk order: title is the metadata title,
\* else the metadata filename, else "Document {asset_id}"; url is the metadata
\* url, else the metadata source, else the empty string; relevance is the
\* chunk's similarity score.
C26_SendMessageMapping ==
    \A f \in Flows :
        (flow[f].kind = "send" /\ flow[f].result = "succeeded"
            /\ req[f].status = "resolved") =>
           LET m == state.messages[Len(state.messages)]
               chunks == req[f].data.retrieved_chunks
           IN  /\ m.role = "assistant"
               /\ m.content = req[f].data.response
               /\ Len(m.sources) = Len(chunks)
               /\ \A i \in DOMAIN chunks :
                     /\ m.sources[i].title =
                           IF HasMetadata(chunks[i], "title")
                           THEN chunks[i].metadata["title"]
                           ELSE IF HasMetadata(chunks[i], "filename")
                           THEN chunks[i].metadata["filename"]
                           ELSE "Document " \o ToString(chunks[i].asset_id)
                     /\ m.sources[i].url =
                           IF HasMetadata(chunks[i], "url")
                           THEN chunks[i].metadata["url"]
                           ELSE IF HasMetadata(chunks[i], "source")
                           THEN chunks[i].metadata["source"]
                           ELSE ""
                     /\ m.sources[i].relevance_score = chunks[i].similarity_score

\* a response with two chunks was mapped: the first carries a title, a
\* filename, a url and a source, the second no metadata
C26_Witness ==
    \E f \in Flows :
        /\ flow[f].kind = "send" /\ flow[f].result = "succeeded"
        /\ req[f].status = "resolved"
        /\ Len(req[f].data.retrieved_chunks) = 2
        /\ DOMAIN req[f].data.retrieved_chunks[1].metadata = MetadataKeys
        /\ DOMAIN req[f].data.retrieved_chunks[2].metadata = {}
        /\ req[f].data.retrieved_chunks[1].asset_id = 102
        /\ LET sources == state.messages[Len(state.messages)].sources
           IN  /\ sources[1].title = MetadataValue("title")
               /\ sources[1].url = MetadataValue("url")
               /\ sources[2].title = "Document 101"
               /\ sources[2].url = ""

(* ---------------------------------------------------------------------- *)
(* Properties of the log, the loading flag and the error slot under the    *)
(* flows                                                                   *)
(* ---------------------------------------------------------------------- *)

\* C27: every message of the log that has a sources field or a
\* confidence_score field has role assistant: user messages and system
\* breadcrumbs carry neither.
C27_CitationsOnlyOnAssistant ==
    \A i \in DOMAIN state.messages :
        ({"sources", "confidence_score"} \cap DOMAIN state.messages[i] # {}) =>
           state.messages[i].role = "assistant"

\* the log holds a user message, a system breadcrumb and an assistant
\* message with a citation
C27_Witness ==
    /\ \E i \in DOMAIN state.messages : state.messages[i].role = "user"
    /\ \E i \in DOMAIN state.messages : state.messages[i].role = "system"
    /\ \E i \in DOMAIN state.messages :
          /\ state.messages[i].role = "assistant"
          /\ Len(state.messages[i].sources) > 0

\* C28: whenever no send-text or upload-file flow is in progress, the
\* loading flag is false.
C28_LoadingNotStuck ==
    (\A f \in Flows : ~InProgress(f)) => ~state.isLoading

\* an upload and a send have both ended, one successfully and one not, and
\* loading is false
C28_Witness ==
    /\ \A f \in Flows : flow[f].pc = "done"
    /\ \E f \in Flows : flow[f].kind = "upload" /\ flow[f].result = "succeeded"
    /\ \E f \in Flows : flow[f].kind = "send" /\ flow[f].result = "failed"
    /\ ~state.isLoading

\* the step is a clear-error transition: the alert is dismissed, or
\* handleUploadFile starts
ClearErrorStep ==
    \/ flow' = flow /\ req' = req
    \/ \E f \in Flows : flow[f].pc = "idle" /\ flow'[f].kind = "upload"

\* a flow fails in the step
FlowFailsStep ==
    \E f \in Flows : InProgress(f) /\ flow'[f].pc = "done" /\ flow'[f].result = "failed"

\* C29: a non-null error slot changes only in a clear-error transition (the
\* alert is dismissed, handleUploadFile starts), which sets it to null, or in
\* a step in which a flow fails, which sets a message; the reducer's append
\* message, set loading, clear messages and set session id leave it as it is.
C29_ErrorSticky ==
    [][/\ (state.error # Null /\ state'.error # state.error) =>
             \/ state'.error = Null /\ ClearErrorStep
             \/ state'.error # Null /\ FlowFailsStep
       /\ (state'.error # Null) =>
             /\ \A m \in ReducerMessages :
                   chatReducer(state', [type |-> "ADD_MESSAGE", payload |-> m]).error
                      = state'.error
             /\ \A b \in BOOLEAN :
                   chatReducer(state', [type |-> "SET_LOADING", payload |-> b]).error
                      = state'.error
             /\ chatReducer(state', [type |-> "CLEAR_MESSAGES"]).error = state'.error
             /\ \A id \in ReducerSessionIds :
                   chatReducer(state', [type |-> "SET_SESSION_ID", payload |-> id]).error
                      = state'.error]_vars

\* a send failed and left its message in the error slot; a send that started
\* after it succeeded, and the message is still there
C29_Witness ==
    /\ flow[1].kind = "send" /\ flow[1].result = "failed" /\ flow[1].solo
    /\ flow[2].kind = "send" /\ flow[2].result = "succeeded" /\ flow[2].solo
    /\ state.error # Null
    /\ state.messages[Len(state.messages)].role = "assistant"

\* C30: for a failure whose response carries a detail message, the catch
\* blocks of both flows set the error slot to that detail message; the
\* generic fallback text is written only for a failure without any message.
C30_BackendDetailSurfaced ==
    \A e \in AxiosErrors, f \in Flows, name \in FileNames :
        LET sent == sendRejected(state, e).error
            uploaded == uploadRejected(state, f, 2, name, e).error
        IN  /\ Truthy(e.detail) => (sent = e.detail /\ uploaded = e.detail)
            /\ (sent = "Failed to send message") => (e.detail = "" /\ e.message = "")
            /\ (uploaded = "Upload or processing failed") =>
                  (e.detail = "" /\ e.message = "")

(* ---------------------------------------------------------------------- *)
(* Termination, retries and logging                                        *)
(* ---------------------------------------------------------------------- *)

\* C33: a request whose failure was surfaced has one log entry when the
\* failure has no response or a status >= 500 and none when the status is
\* 4xx; a request in flight, waiting for its retry or answered has none, so
\* attempts that are retried are not logged and a request that used up its
\* budget is logged once.
C33_LoggedOnceWhenSurfaced ==
    \A f \in Flows :
        /\ (req[f].status = "rejected") =>
              req[f].logs = IF ~req[f].error.hasResponse \/ req[f].error.status >= 500
                            THEN 1 ELSE 0
        /\ (req[f].status \in {"inflight", "delay", "resolved"}) => req[f].logs = 0

\* one request used up its budget on network failures and is logged once,
\* another was rejected with a 404 and is not logged
C33_Witness ==
    \E f, g \in Flows :
        /\ req[f].status = "rejected" /\ req[f].error = NetworkFailure
        /\ req[f].dispatches = MAX_RETRIES + 1 /\ req[f].logs = 1
        /\ req[g].status = "rejected" /\ req[g].error = HttpFailure(404)
        /\ req[g].logs = 0

\* C31: under SpecUiFair (every attempt in flight is eventually answered,
\* every retry delay eventually elapses) every started flow eventually ends,
\* with the loading flag false, whatever the answers are.
C31_FlowsTerminate ==
    \A f \in Flows :
        InProgress(f) ~> (flow[f].pc = "done" /\ ~state.isLoading)

\* a flow whose every attempt met a network failure has ended
C31_Witness ==
    \E f \in Flows :
        /\ flow[f].pc = "done" /\ flow[f].result = "failed" /\ flow[f].retried
        /\ state.error = NetworkFailure.message
        /\ ~state.isLoading

\* the awaited call of invocation f is answered successfully in the step
CallResolved(f) ==
    /\ InProgress(f) /\ req[f].status = "inflight"
    /\ Len(flow'[f].calls) >= Len(flow[f].calls)
    /\ flow'[f].calls[Len(flow[f].calls)].outcome = "resolved"

\* C32: a step in which a failed attempt enters the retry delay, or in which
\* the delay ends and the request goes out again, changes nothing in the
\* ConversationStore and leaves the flow suspended; when a request that was
\* reissued is answered successfully, the flow goes on as after a first
\* attempt's success: it appends the assistant message (send) or the next
\* breadcrumb (upload), does not fail, and leaves the error slot as it was.
C32_RetriesTransparent ==
    [][\A f \in Flows :
          /\ (req[f].status = "inflight" /\ req'[f].status = "delay") =>
                state' = state /\ flow'[f].pc = flow[f].pc
          /\ (req[f].status = "delay" /\ req'[f].status = "inflight") =>
                state' = state /\ flow'[f].pc = flow[f].pc
          /\ (req[f].dispatches > 1 /\ CallResolved(f)) =>
                /\ state'.error = state.error
                /\ flow'[f].result # "failed"
                /\ Len(state'.messages) = Len(state.messages) + 1
                /\ LET m == state'.messages[Len(state'.messages)]
                   IN  /\ m.role = IF flow[f].kind = "send" THEN "assistant" ELSE "system"
                       /\ m.content # FailedText(flow[f].arg)]_vars

\* a send whose query was reissued has succeeded, and no error is set
C32_Witness ==
    \E f \in Flows :
        /\ flow[f].kind = "send" /\ flow[f].retried
        /\ flow[f].result = "succeeded"
        /\ state.error = Null
        /\ state.messages[Len(state.messages)].role = "assistant"

\* C34: neither the step in which a send-text flow starts nor the step in
\* which it succeeds changes the error slot: an error set by an earlier
\* failed flow is still there when the send has succeeded.
C34_SendKeepsError ==
    [][\A f \in Flows :
          (/\ flow'[f].kind = "send"
           /\ \/ flow[f].pc = "idle" /\ flow'[f].pc = "await"
              \/ flow[f].pc = "await" /\ flow'[f].result = "succeeded") =>
             state'.error = state.error]_vars

\* an upload failed; a send that started after it has succeeded, and the
\* upload's error is still set
C34_Witness ==
    /\ flow[1].kind = "upload" /\ flow[1].result = "failed" /\ flow[1].solo
    /\ flow[2].kind = "send" /\ flow[2].result = "succeeded" /\ flow[2].solo
    /\ state.error # Null

C36_StoreFollowsHook ==
    [][/\ (~ui.hook.effect /\ ui'.hook.op = "refreshSession") =>
              ui'.hook.sessionId = regenerateSessionId(store, throws).ret
       /\ (~ui.hook.effect /\ ui'.hook.op = "clearSession") =>
              ui'.hook.sessionId = ""
       /\ ~ui'.hook.effect => state'.sessionId = ui'.hook.sessionId]_vars

(* ---------------------------------------------------------------------- *)
(* Data deletion from the Footer                                           *)
(* ---------------------------------------------------------------------- *)

\* the deletion requests that are outstanding in flows
Deleting(flows) == {f \in Flows : flows[f].kind = "delete" /\ flows[f].pc = "await"}

(* C37: with an empty session id the Footer's deletion issues no request;
   when a deletion that was issued settles, the modal is closed, the
   deleting flag is false, and the status shown is 'success' exactly when
   the request succeeded and 'error' exactly when it failed. *)
C37_DeletionOutcome ==
    [][/\ (~Truthy(ui.footer.sessionId)) =>
              /\ req' = req
              /\ Deleting(flow') = {}
       /\ \A f \in Deleting(flow) :
              (flow'[f].pc = "done") =>
                  /\ ~ui'.footer.showDeleteModal
                  /\ ~ui'.footer.isDeleting
                  /\ flow'[f].calls[1].outcome \in {"resolved", "rejected"}
                  /\ (ui'.footer.deleteStatus = "success") <=>
                         (flow'[f].calls[1].outcome = "resolved")
                  /\ (ui'.footer.deleteStatus = "error") <=>
                         (flow'[f].calls[1].outcome = "rejected")]_vars

\* a deletion that was issued has failed
C37_Witness ==
    /\ flow[1].kind = "delete" /\ flow[1].result = "failed"
    /\ req[1] = NoRequest
    /\ ui.footer.deleteStatus = "error"
    /\ ~ui.footer.showDeleteModal /\ ~ui.footer.isDeleting

(* C38: while a deletion is in flight the confirmation modal stays open
   (Escape, backdrop and its buttons do nothing) and no second deletion is
   started: at most one deletion request is outstanding at any time. *)
C38_OneDeletionAtATime ==
    [][/\ Cardinality(Deleting(flow')) <= 1
       /\ (ui.footer.isDeleting /\ ui'.footer.isDeleting) =>
              /\ ui'.footer.showDeleteModal = ui.footer.showDeleteModal
              /\ Deleting(flow') \subseteq Deleting(flow)]_vars

\* a deletion is in flight, inside its retry delay, under the open modal
C38_Witness ==
    \E f \in Flows :
        /\ f \in Deleting(flow)
        /\ req[f].status = "delay"
        /\ ui.footer.isDeleting
        /\ ui.footer.showDeleteModal

(* ---------------------------------------------------------------------- *)
(* The App gate                                                            *)
(* ---------------------------------------------------------------------- *)

(* C39: App shows the chat interface only while its authenticated flag is
   true and the login screen only while it is false; the mount effect sets
   the flag to what isAuthenticated() returns; afterwards the flag becomes
   true only in the step in which a login call succeeds, and it becomes
   false only by a sign-out, which calls logout() and shows the login
   screen. *)
C39_AppGate ==
    [][/\ ChatShown' => ui'.app.isAuthenticated
       /\ LoginShown' => ~ui'.app.isAuthenticated
       /\ (ui.app.isLoading /\ ~ui'.app.isLoading) =>
              ui'.app.isAuthenticated =
                  (isAuthenticated(store, throws).ret = Bool(TRUE))
       /\ (~ui.app.isLoading /\ ~ui.app.isAuthenticated
               /\ ui'.app.isAuthenticated) =>
              /\ flow[1].kind = "login" /\ flow[1].pc = "await"
              /\ req[1].url = LoginUrl
              /\ flow'[1].result = "succeeded"
              /\ ChatShown'
       /\ (ui.app.isAuthenticated /\ ~ui'.app.isAuthenticated) =>
              /\ ChatShown
              /\ last'.op = "logout"
              /\ store' = logout(store, throws).store
              /\ LoginShown']_vars

\* a user with a stored token got the chat interface on mount, signed out,
\* and got the chat interface again by a login
C39_Witness ==
    /\ ChatShown
    /\ last.op = "logout"
    /\ last.before.local[TOKEN_KEY] # Null
    /\ flow[1].kind = "login" /\ flow[1].result = "succeeded"

(* C40: whenever the chat interface is shown, isAuthenticated() is true:
   an auth token is in durable storage, also after a login whose token
   write met unavailable storage. *)
C40_ChatImpliesToken ==
    ChatShown => isAuthenticated(store, throws).ret = Bool(TRUE)

====
